---------------------------- MODULE Spec2Model ----------------------------
(***************************************************************************)
(* SpringChatPy: PDF text -> chunks -> embeddings -> vector index.         *)
(*                                                                         *)
(* A text is a sequence of characters, a character is a one-element        *)
(* string ("a", " ", "\n", ...).  A Python dict is a function from key     *)
(* strings to values, an Optional value is <<>> (None) or <<v>>.           *)
(***************************************************************************)
EXTENDS Integers, Sequences, FiniteSets, TLC

VARIABLES
    \* the entry point that drives the run, the extractor it uses and the
    \* extractor's parameters
    entry, extractor, max_chars, overlap_chars,
    \* the directory loop and the document being read
    pc, doc_no, page_index, n_lines, body_font, hf_texts,
    \* extract_chunks_from_pdf: the page loop's locals
    prev_y1, para_lines, blocks, current_section,
    \* pdf_to_qdrant_jsonl, extract_all_text: the section context
    ctx, block_index,
    \* the chunk records of the document and its output file
    out_chunks, running_chunk_index, out_file, uuid_ctr,
    \* embed_chunks: batch_size, the loop variable b, the vectors it returns,
    \* and what the embedding service answered to each request
    embed_batch_size, embed_b, embed_vectors, embed_log,
    \* the vector index: its collections and the calls the clients made
    collections, client_calls,
    \* upload_jsonl_dir / ensure_collection, one activation per worker
    jsonl_dir, batch_size, w_entry, w_pc, vector_size, recreate, exists,
    point_pos, first_point, chain_head,
    \* a call of one of the text splitters: arguments and result
    split_fn, split_text, split_max_chars, split_overlap, split_result,
    \* split_chunks run step by step: where the call is, the loop variable
    \* start and the list chunks
    split_pc, split_start, split_acc,
    \* a run of build_tree and tree_to_markdown: the heading list, the tree
    \* and the markdown text
    outline_pc, headings, tree, markdown,
    \* the headings extract_headings detects, before the repeats are dropped
    detected,
    \* a document given whole: the lines and the height of each page, the
    \* number of lines the page loop has taken, and a run of the
    \* header/footer detection and filter on the lines
    lines_per_page, page_heights, line_no,
    filter_pc, header_footer, filtered, refiltered

extractVars ==
    <<entry, extractor, max_chars, overlap_chars, pc, doc_no, page_index,
      n_lines, body_font, hf_texts, prev_y1, para_lines, blocks,
      current_section, ctx, block_index, out_chunks, running_chunk_index,
      out_file, uuid_ctr>>

embedVars == <<embed_batch_size, embed_b, embed_vectors, embed_log>>

indexVars == <<collections, client_calls>>

uploadVars ==
    <<jsonl_dir, batch_size, w_entry, w_pc, vector_size, recreate, exists,
      point_pos, first_point, chain_head>>

splitVars ==
    <<split_fn, split_text, split_max_chars, split_overlap, split_result>>

\* calls of single functions, run by themselves
loopVars == <<split_pc, split_start, split_acc>>

outlineVars == <<outline_pc, headings, tree, markdown, detected>>

docVars ==
    <<lines_per_page, page_heights, line_no, filter_pc, header_footer,
      filtered, refiltered>>

callVars == <<loopVars, outlineVars, docVars>>

\* everything an extractor leaves alone
nonExtractVars == <<embedVars, indexVars, uploadVars, splitVars, callVars>>

vars ==
    <<extractVars, embedVars, indexVars, uploadVars, splitVars, callVars>>

(***************************************************************************)
(* Bounds of the model.                                                    *)
(***************************************************************************)
MinChars == 2
MaxChars == 6
MaxOverlap == 1
MaxLines == 2
MaxPages == 2
MaxDocs == 2

(***************************************************************************)
(* Characters and Python's str helpers.                                    *)
(***************************************************************************)
SP == " "
NL == "\n"
SHY == "shy"
Letters ==
    {"a", "b", "c", "p", "g", "e", "P",
     "M", "O", "d", "f", "i", "l", "o", "r", "u", "v", "w", "x"}
Digits == {"1", "2"}

IsWs(c) == c \in {SP, NL}

\* \w of the re module: letters, digits and the underscore
IsWord(c) == c \in Letters \cup Digits

Min(a, b) == IF a <= b THEN a ELSE b
Max(a, b) == IF a >= b THEN a ELSE b

AllWs(s) == \A i \in 1..Len(s) : IsWs(s[i])

\* s[lo:hi] of Python on 0-based half-open bounds 0 <= lo, hi
Slice(s, lo, hi) == SubSeq(s, lo + 1, Min(hi, Len(s)))

\* s[-k:] of Python for k > 0
Tail_(s, k) == SubSeq(s, Max(1, Len(s) - k + 1), Len(s))

\* str.strip()
Strip(s) ==
    IF AllWs(s) THEN <<>>
    ELSE LET lo == CHOOSE i \in 1..Len(s) :
                       ~IsWs(s[i]) /\ \A j \in 1..(i - 1) : IsWs(s[j])
             hi == CHOOSE i \in 1..Len(s) :
                       ~IsWs(s[i]) /\ \A j \in (i + 1)..Len(s) : IsWs(s[j])
         IN  SubSeq(s, lo, hi)

\* the characters of s at the positions where Keep(s, i) holds, in order
Kept(s, Keep(_, _)) ==
    LET ann == [i \in 1..Len(s) |-> <<s[i], Keep(s, i)>>]
        sel == SelectSeq(ann, LAMBDA x : x[2])
    IN  [i \in 1..Len(sel) |-> sel[i][1]]

\* "\n".join(parts)
RECURSIVE JoinNL(_)
JoinNL(parts) ==
    IF parts = <<>> THEN <<>>
    ELSE IF Len(parts) = 1 THEN parts[1]
    ELSE parts[1] \o <<NL>> \o JoinNL(Tail(parts))

IsPrefix(p, s) == Len(p) <= Len(s) /\ SubSeq(s, 1, Len(p)) = p

(***************************************************************************)
(* chunks_extractor.py: _dehyphenate, _normalize.                          *)
(***************************************************************************)
\* a match of (\w)-\s*\n\s*(\w) can start at i: the position of its last
\* character, or 0
HyEnd(s, i) ==
    IF i + 3 <= Len(s) /\ IsWord(s[i]) /\ s[i + 1] = "-"
    THEN LET js == {j \in (i + 3)..Len(s) :
                       /\ IsWord(s[j])
                       /\ \A k \in (i + 2)..(j - 1) : IsWs(s[k])
                       /\ \E k \in (i + 2)..(j - 1) : s[k] = NL}
         IN  IF js = {} THEN 0 ELSE CHOOSE j \in js : TRUE
    ELSE 0

\* re.sub takes the leftmost matches that do not overlap: one starting on
\* the last character of a taken match is not taken
RECURSIVE HyTaken(_, _)
HyTaken(s, i) ==
    /\ HyEnd(s, i) > 0
    /\ ~\E h \in 1..(i - 1) : HyEnd(s, h) = i /\ HyTaken(s, h)

HyKeep(s, k) == ~\E i \in 1..(k - 1) : HyTaken(s, i) /\ k < HyEnd(s, i)

_dehyphenate(text) == Kept(text, HyKeep)

NotShy(s, i) == s[i] # SHY

\* [ \t]+ -> " "
SpaceKeep(s, i) == ~(s[i] = SP /\ i > 1 /\ s[i - 1] = SP)

\* \n{3,} -> \n\n
NewlineKeep(s, i) == ~(s[i] = NL /\ i > 2 /\ s[i - 1] = NL /\ s[i - 2] = NL)

_normalize(text) ==
    Strip(Kept(Kept(_dehyphenate(Kept(text, NotShy)), SpaceKeep), NewlineKeep))

(***************************************************************************)
(* chunks_extractor.py: _looks_like_header_footer.                         *)
(***************************************************************************)
Lower(c) ==
    IF c = "P" THEN "p"
    ELSE IF c = "M" THEN "m"
    ELSE IF c = "O" THEN "o"
    ELSE c

IsDigits(s) == Len(s) > 0 /\ \A i \in 1..Len(s) : s[i] \in Digits

\* \d+\s*/\s*\d+
IsFraction(s) ==
    \E i \in 1..Len(s) : \E j \in (i + 1)..Len(s) : \E k \in (j + 1)..Len(s) :
        /\ IsDigits(SubSeq(s, 1, i))
        /\ AllWs(SubSeq(s, i + 1, j - 1))
        /\ s[j] = "/"
        /\ AllWs(SubSeq(s, j + 1, k - 1))
        /\ IsDigits(SubSeq(s, k, Len(s)))

\* page\s*\d+(\s*/\s*\d+)? with re.IGNORECASE
IsPageNo(s) ==
    /\ Len(s) > 4
    /\ [i \in 1..4 |-> Lower(s[i])] = <<"p", "a", "g", "e">>
    /\ \E m \in 4..(Len(s) - 1) :
           /\ AllWs(SubSeq(s, 5, m))
           /\ \/ IsDigits(SubSeq(s, m + 1, Len(s)))
              \/ IsFraction(SubSeq(s, m + 1, Len(s)))

_looks_like_header_footer(line) ==
    LET s == Strip(line)
    IN  \/ s = <<>>
        \/ IsPageNo(s)
        \/ IsFraction(s)
        \/ IsDigits(s)

(***************************************************************************)
(* chunks_extractor.py: _split_into_chunks.  The loop state is             *)
(* [chunks, cur, cur_meta, cur_len]; cur_meta is <<>> (None) or <<dict>>.  *)
(***************************************************************************)
None == <<>>
Some(v) == <<v>>

WithoutText(b) == [k \in DOMAIN b \ {"text"} |-> b[k]]

SetKey(d, key, v) == [k \in DOMAIN d \cup {key} |-> IF k = key THEN v ELSE d[k]]

HasKey(d, key) == key \in DOMAIN d

SplitInit == [chunks |-> <<>>, cur |-> <<>>, cur_meta |-> None, cur_len |-> 0]

flush(st) ==
    IF st.cur = <<>> THEN st
    ELSE LET text == _normalize(JoinNL(st.cur))
             meta == IF st.cur_meta = None THEN <<>> ELSE st.cur_meta[1]
         IN  [chunks   |-> IF text # <<>>
                           THEN Append(st.chunks, SetKey(meta, "text", text))
                           ELSE st.chunks,
              cur      |-> <<>>,
              cur_meta |-> None,
              cur_len  |-> 0]

\* a test that leaves the separators out
TooLargeNoSep(cur_len, n, maxc) == cur_len + n > maxc

\* cur_len + len(t) + 2 > max_chars
TooLarge(cur_len, n, maxc) == cur_len + n + 2 > maxc

\* one iteration of "for b in blocks"
SplitStep(st, b, maxc, overlap) ==
    LET t == Strip(b["text"])
        meta == Some(WithoutText(b))
    IN  IF t = <<>> THEN st
        ELSE IF HasKey(b, "is_heading") /\ b["is_heading"]
        THEN [flush(st) EXCEPT !.cur_meta = meta, !.cur = <<t>>, !.cur_len = Len(t)]
        ELSE LET st1 == IF st.cur_meta = None
                        THEN [st EXCEPT !.cur_meta = meta] ELSE st
             IN  IF TooLarge(st1.cur_len, Len(t), maxc)
                 THEN IF overlap > 0 /\ st1.cur # <<>>
                      THEN LET joined == JoinNL(st1.cur)
                               tail == Tail_(joined, overlap)
                           IN  [flush(st1) EXCEPT !.cur_meta = meta,
                                                  !.cur = <<tail, t>>,
                                                  !.cur_len = Len(tail) + Len(t)]
                      ELSE [flush(st1) EXCEPT !.cur_meta = meta,
                                              !.cur = <<t>>,
                                              !.cur_len = Len(t)]
                 ELSE [st1 EXCEPT !.cur = Append(@, t),
                                  !.cur_len = @ + Len(t) + 2]

RECURSIVE SplitLoop(_, _, _, _)
SplitLoop(st, bs, maxc, overlap) ==
    IF bs = <<>> THEN st
    ELSE SplitLoop(SplitStep(st, Head(bs), maxc, overlap),
                   Tail(bs), maxc, overlap)

_split_into_chunks(bs, maxc, overlap) ==
    flush(SplitLoop(SplitInit, bs, maxc, overlap)).chunks

(***************************************************************************)
(* extract_designing_ai.py / extract_designing_ai2.py: normalize_text.     *)
(***************************************************************************)
\* a match of (\w)-\n(\w) can start at i
Hy4(s, i) ==
    /\ i >= 1 /\ i + 3 <= Len(s)
    /\ IsWord(s[i]) /\ s[i + 1] = "-" /\ s[i + 2] = NL /\ IsWord(s[i + 3])

\* leftmost matches that do not overlap
RECURSIVE Hy4Taken(_, _)
Hy4Taken(s, i) == Hy4(s, i) /\ ~Hy4Taken(s, i - 3)

Hy4Keep(s, k) == ~(Hy4Taken(s, k - 1) \/ Hy4Taken(s, k - 2))

\* (?<!\n)\n(?!\n) -> " "
SingleNewlines(s) ==
    [i \in 1..Len(s) |->
        IF /\ s[i] = NL
           /\ ~(i > 1 /\ s[i - 1] = NL)
           /\ ~(i < Len(s) /\ s[i + 1] = NL)
        THEN SP ELSE s[i]]

normalize_text(s) ==
    Strip(Kept(Kept(SingleNewlines(Kept(s, Hy4Keep)), SpaceKeep), NewlineKeep))

(***************************************************************************)
(* extract_designing_ai2.py: split_chunks; the same loop hard-splits an    *)
(* oversized paragraph in extract_designing_ai.py: split_into_chunks.      *)
(***************************************************************************)
\* windows that follow one another without an overlap
RECURSIVE HardSplitNoOverlap(_, _, _, _)
HardSplitNoOverlap(p, start, maxc, overlap) ==
    IF start >= Len(p) THEN <<>>
    ELSE LET end == Min(start + maxc, Len(p))
             chunk == Strip(Slice(p, start, end))
             out == IF chunk # <<>> THEN <<chunk>> ELSE <<>>
         IN  IF end >= Len(p) THEN out
             ELSE out \o HardSplitNoOverlap(p, end, maxc, overlap)

\* the while loop from a window start on, for overlap < max_chars
RECURSIVE HardSplit(_, _, _, _)
HardSplit(p, start, maxc, overlap) ==
    IF start >= Len(p) THEN <<>>
    ELSE LET end == Min(start + maxc, Len(p))
             chunk == Strip(Slice(p, start, end))
             out == IF chunk # <<>> THEN <<chunk>> ELSE <<>>
         IN  IF end >= Len(p) THEN out
             ELSE out \o HardSplit(p, Max(0, end - overlap), maxc, overlap)

split_chunks(text, maxc, overlap) ==
    IF Len(text) <= maxc THEN <<text>>
    ELSE HardSplit(text, 0, maxc, overlap)

(***************************************************************************)
(* extract_designing_ai.py: split_into_chunks.                             *)
(***************************************************************************)
\* re.split(r"\n\s*\n", t): the leftmost separator starts at the first
\* newline that a whitespace run joins to a later newline, and \s* being
\* greedy it ends at the last such newline
SepStarts(t) ==
    {i \in 1..Len(t) :
        /\ t[i] = NL
        /\ \E j \in (i + 1)..Len(t) :
               t[j] = NL /\ \A k \in (i + 1)..(j - 1) : IsWs(t[k])}

SepEnd(t, i) ==
    CHOOSE j \in (i + 1)..Len(t) :
        /\ t[j] = NL
        /\ \A k \in (i + 1)..(j - 1) : IsWs(t[k])
        /\ \A m \in (j + 1)..Len(t) :
               ~(t[m] = NL /\ \A k \in (j + 1)..(m - 1) : IsWs(t[k]))

RECURSIVE ReSplit(_)
ReSplit(t) ==
    IF SepStarts(t) = {} THEN <<t>>
    ELSE LET i == CHOOSE x \in SepStarts(t) : \A y \in SepStarts(t) : x <= y
         IN  <<SubSeq(t, 1, i - 1)>> \o ReSplit(SubSeq(t, SepEnd(t, i) + 1, Len(t)))

\* flush_buf on the loop state [chunks, buf]
flush_buf(st) ==
    [chunks |-> IF Strip(st.buf) # <<>> THEN Append(st.chunks, Strip(st.buf))
                ELSE st.chunks,
     buf    |-> <<>>]

\* one iteration of "for p in paras"
ParaStep(st, para, maxc, overlap) ==
    LET p == Strip(para)
        candidate == IF st.buf # <<>> THEN Strip(st.buf \o <<NL, NL>> \o p) ELSE p
    IN  IF p = <<>> THEN st
        ELSE IF Len(candidate) <= maxc THEN [st EXCEPT !.buf = candidate]
        ELSE LET f == flush_buf(st)
             IN  IF Len(p) > maxc
                 THEN [f EXCEPT !.chunks = @ \o HardSplit(p, 0, maxc, overlap)]
                 ELSE [f EXCEPT !.buf = p]

RECURSIVE ParaLoop(_, _, _, _)
ParaLoop(st, paras, maxc, overlap) ==
    IF paras = <<>> THEN st
    ELSE ParaLoop(ParaStep(st, Head(paras), maxc, overlap),
                  Tail(paras), maxc, overlap)

\* the closing pass: every chunk but the first gets the tail of the chunk
\* appended before it
RECURSIVE Overlapped(_, _, _)
Overlapped(done, chunks, overlap) ==
    IF chunks = <<>> THEN done
    ELSE IF done = <<>> THEN Overlapped(<<Head(chunks)>>, Tail(chunks), overlap)
    ELSE LET prev == done[Len(done)]
             tail == IF Len(prev) > overlap THEN Tail_(prev, overlap) ELSE prev
         IN  Overlapped(Append(done, Strip(tail \o Head(chunks))),
                        Tail(chunks), overlap)

split_into_chunks(text, maxc, overlap) ==
    LET t == Strip(text)
    IN  IF Len(t) <= maxc THEN <<t>>
        ELSE LET chunks == flush_buf(ParaLoop([chunks |-> <<>>, buf |-> <<>>],
                                              ReSplit(t), maxc, overlap)).chunks
             IN  IF overlap > 0 /\ Len(chunks) > 1
                 THEN Overlapped(<<>>, chunks, overlap)
                 ELSE chunks

(***************************************************************************)
(* extract_designing_ai.py: looks_like_heading, classify_level;            *)
(* extract_designing_ai2.py: classify.  Font sizes are whole points, the   *)
(* scale factors are in hundredths.                                        *)
(***************************************************************************)
MAX_CHARS == 1200
OVERLAP_CHARS == 150
HEADER_SCALE_H1 == 135
HEADER_SCALE_H2 == 120
TITLE_SCALE == 175

\* len(t.split())
WordCount(t) ==
    Cardinality({i \in 1..Len(t) : ~IsWs(t[i]) /\ (i = 1 \/ IsWs(t[i - 1]))})

looks_like_heading(text) ==
    LET t == Strip(text)
    IN  IF t = <<>> THEN FALSE
        ELSE IF WordCount(t) < 1 \/ WordCount(t) > 18 THEN FALSE
        ELSE IF t[Len(t)] = "." THEN FALSE
        ELSE TRUE

classify_level(avg_size, body_size) ==
    IF body_size <= 0 THEN "body"
    ELSE IF avg_size * 100 >= body_size * TITLE_SCALE THEN "title"
    ELSE IF avg_size * 100 >= body_size * HEADER_SCALE_H1 THEN "h1"
    ELSE IF avg_size * 100 >= body_size * HEADER_SCALE_H2 THEN "h2"
    ELSE "body"

classify(avg_size, body_size) ==
    IF body_size > 0 /\ avg_size * 100 >= body_size * TITLE_SCALE THEN "title"
    ELSE IF body_size > 0 /\ avg_size * 100 >= body_size * HEADER_SCALE_H1 THEN "h1"
    ELSE IF body_size > 0 /\ avg_size * 100 >= body_size * HEADER_SCALE_H2 THEN "h2"
    ELSE "body"

(***************************************************************************)
(* The inputs a document can hold.                                         *)
(***************************************************************************)
DocNames == <<"a.pdf", "b.pdf", "c.pdf", "d.pdf">>

\* line texts as _iter_lines_with_style yields them: stripped, not empty
LineTexts ==
    {<<"a">>, <<"a", "-">>, <<"b", SP, SP, "c">>, <<"1">>}

\* the line sizes: body text and a heading; the median size of a document
LineSizes == {10, 24}
BodySizes == {10}

\* a text that _detect_header_footer_zones may have found repeating
HeaderPool == {<<"a">>}

LongText == [i \in 1..1300 |-> IF i % 7 = 0 THEN "a" ELSE IF i % 7 < 3 THEN "b" ELSE "c"]

\* raw block texts as block_text_and_style yields them
BlockTexts ==
    {<<>>, <<"a">>, <<"b", ".">>, <<"a", "-", NL, "b", NL, "c">>, LongText}

\* block styles: body, h2, h1 and title against a body size of 10
BlockStyles ==
    {[size |-> 10, bold |-> FALSE], [size |-> 12, bold |-> TRUE],
     [size |-> 14, bold |-> FALSE], [size |-> 18, bold |-> TRUE]}

\* page_body_font_size: the median span size, 0.0 when there is none
PageBodySizes == {0, 10}

\* bounding boxes (x0, y0, x1, y1) on a page of height 792: one in the top
\* margin, one in the body
PageHeights == {792}
BBoxes == {<<72, 30, 500, 42>>, <<72, 100, 500, 200>>}

NoCtx == [title |-> None, h1 |-> None, h2 |-> None]

(***************************************************************************)
(* chunks_extractor.py: extract_chunks_from_pdf, driven by create_chunks.  *)
(* pc is "idle" between documents, "pages" at the head of the page loop,   *)
(* "page" inside the loop over the lines of a page.                        *)
(***************************************************************************)
heading_ratio == 125

\* _is_heading(ln, body_font, heading_ratio) on a line [text, size, gap]
IsHeadingLine(ln, bf) ==
    IF Len(Strip(ln.text)) > 140 THEN FALSE
    ELSE ln.size * 100 >= bf * heading_ratio

\* flush_para on [para_lines, blocks]
flush_para(pl, bl, source_file, page, section) ==
    IF pl = <<>> THEN [para_lines |-> pl, blocks |-> bl]
    ELSE LET text == _normalize(Strip(JoinNL(pl)))
         IN  [para_lines |-> <<>>,
              blocks |-> IF text # <<>>
                         THEN Append(bl, [source_file |-> source_file,
                                          page |-> page,
                                          section |-> section,
                                          text |-> text])
                         ELSE bl]

\* a counter that starts again on every page
StampFromZero(chunks, index) ==
    [i \in 1..Len(chunks) |-> SetKey(chunks[i], "chunk_index", i - 1)]

\* running_chunk_index stamped on the chunks of a page
Stamp(chunks, index) ==
    [i \in 1..Len(chunks) |-> SetKey(chunks[i], "chunk_index", index + i - 1)]

ExtractChunksBegin ==
    /\ extractor = "extract_chunks_from_pdf"
    /\ pc = "idle" /\ doc_no < MaxDocs
    /\ doc_no' = doc_no + 1
    /\ body_font' \in BodySizes
    /\ hf_texts' \in SUBSET HeaderPool
    /\ out_chunks' = <<>>
    /\ running_chunk_index' = 0
    /\ current_section' = None
    /\ page_index' = 0
    /\ out_file' = None
    /\ pc' = "pages"
    /\ UNCHANGED <<nonExtractVars, entry, extractor, max_chars,
                   overlap_chars, n_lines, prev_y1,
                   para_lines, blocks, ctx, block_index, uuid_ctr>>

ExtractChunksPage ==
    /\ extractor = "extract_chunks_from_pdf"
    /\ pc = "pages" /\ page_index < MaxPages
    /\ blocks' = <<>>
    /\ prev_y1' = None
    /\ para_lines' = <<>>
    /\ pc' = "page"
    /\ UNCHANGED <<nonExtractVars, entry, extractor, max_chars,
                   overlap_chars, doc_no, page_index,
                   n_lines, body_font, hf_texts, current_section, ctx,
                   block_index, out_chunks, running_chunk_index, out_file,
                   uuid_ctr>>

\* fitz.open or the reading of a page raises while the lines of all pages
\* are collected: no chunk exists yet, the exception leaves
\* extract_chunks_from_pdf and the loop over the PDFs of its caller, which
\* holds no try
ExtractChunksRaise ==
    /\ extractor = "extract_chunks_from_pdf"
    /\ pc = "idle" /\ doc_no < MaxDocs
    /\ doc_no' = doc_no + 1
    /\ out_chunks' = <<>>
    /\ running_chunk_index' = 0
    /\ out_file' = None
    /\ pc' = "Exception"
    /\ UNCHANGED <<nonExtractVars, entry, extractor, max_chars,
                   overlap_chars, page_index, n_lines, body_font, hf_texts,
                   prev_y1, para_lines, blocks, current_section, ctx,
                   block_index, uuid_ctr>>

\* the body of "for ln in lines"
LineStep(ln) ==
    LET t == Strip(ln.text)
        f == flush_para(para_lines, blocks, DocNames[doc_no],
                        page_index + 1, current_section)
    IN  IF t = <<>> \/ t \in hf_texts \/ _looks_like_header_footer(t)
        THEN UNCHANGED <<prev_y1, para_lines, blocks, current_section>>
        ELSE IF IsHeadingLine(ln, body_font)
        THEN /\ current_section' = Some(t)
             /\ blocks' = Append(f.blocks,
                                 [source_file |-> DocNames[doc_no],
                                  page |-> page_index + 1,
                                  section |-> Some(t),
                                  is_heading |-> TRUE,
                                  text |-> t])
             /\ para_lines' = f.para_lines
             /\ prev_y1' = Some("y1")
        ELSE /\ IF prev_y1 # None /\ ln.gap
                THEN /\ blocks' = f.blocks
                     /\ para_lines' = Append(f.para_lines, t)
                ELSE /\ blocks' = blocks
                     /\ para_lines' = Append(para_lines, t)
             /\ prev_y1' = Some("y1")
             /\ UNCHANGED current_section

\* one iteration of "for ln in lines", the line drawn as the loop goes
ExtractChunksLine(ln) ==
    /\ extractor = "extract_chunks_from_pdf"
    /\ pc = "page" /\ n_lines < MaxLines
    /\ n_lines' = n_lines + 1
    /\ LineStep(ln)
    /\ UNCHANGED <<nonExtractVars, entry, extractor, max_chars,
                   overlap_chars, pc, doc_no, page_index,
                   body_font, hf_texts, ctx, block_index, out_chunks,
                   running_chunk_index, out_file, uuid_ctr>>

\* the end of the page: flush_para, _split_into_chunks, the chunk indices
ExtractChunksEndPage ==
    /\ extractor = "extract_chunks_from_pdf"
    /\ pc = "page"
    /\ LET f == flush_para(para_lines, blocks, DocNames[doc_no],
                           page_index + 1, current_section)
           page_chunks == _split_into_chunks(f.blocks, max_chars, overlap_chars)
       IN  /\ blocks' = f.blocks
           /\ para_lines' = f.para_lines
           /\ out_chunks' = out_chunks \o Stamp(page_chunks, running_chunk_index)
           /\ running_chunk_index' = running_chunk_index + Len(page_chunks)
    /\ page_index' = page_index + 1
    /\ pc' = "pages"
    /\ UNCHANGED <<nonExtractVars, entry, extractor, max_chars,
                   overlap_chars, doc_no, n_lines,
                   body_font, hf_texts, prev_y1, current_section, ctx,
                   block_index, out_file, uuid_ctr>>

\* the page loop is over and extract_chunks_from_pdf returns: create_chunks
\* writes the chunks, create_embeddings goes on to embed them; both skip a
\* document without chunks
ExtractChunksReturn ==
    /\ extractor = "extract_chunks_from_pdf"
    /\ pc = "pages"
    /\ IF entry = "create_embeddings" /\ out_chunks # <<>>
       THEN /\ pc' = "embed"
            /\ embed_b' = 0
            /\ embed_log' = <<>>
            /\ out_file' = None
       ELSE /\ pc' = "idle"
            /\ out_file' = IF entry = "create_chunks" /\ out_chunks # <<>>
                           THEN Some(out_chunks) ELSE None
            /\ UNCHANGED <<embed_b, embed_log>>
    /\ blocks' = <<>>
    /\ para_lines' = <<>>
    /\ prev_y1' = None
    /\ UNCHANGED <<embed_batch_size, embed_vectors, indexVars, uploadVars,
                   splitVars, callVars, entry, extractor, max_chars, overlap_chars,
                   doc_no, page_index, n_lines, body_font, hf_texts,
                   current_section, ctx, block_index, out_chunks,
                   running_chunk_index, uuid_ctr>>

(***************************************************************************)
(* extract_designing_ai.py: pdf_to_qdrant_jsonl, driven by create_extracts.*)
(* A block is [text, size, bold, bbox].                                    *)
(***************************************************************************)
TOP_BOTTOM_MARGIN_PX == 45

is_header_footer_bbox(bbox, page_height) ==
    bbox[2] < TOP_BOTTOM_MARGIN_PX \/ bbox[4] > page_height - TOP_BOTTOM_MARGIN_PX

\* normalize_text and the splitters on the block texts, computed once
NormalizedText == [t \in BlockTexts |-> normalize_text(t)]

QdrantChunks ==
    [t \in BlockTexts |-> split_into_chunks(NormalizedText[t], MAX_CHARS, OVERLAP_CHARS)]

AllTextChunks ==
    [t \in BlockTexts |-> split_chunks(NormalizedText[t], MAX_CHARS, OVERLAP_CHARS)]

\* a context that keeps the deeper slots when a heading arrives
HeadingCtxKeepDeeper(c, level, text) ==
    IF level \in {"title", "h1", "h2"} THEN [c EXCEPT ![level] = Some(text)]
    ELSE c

\* the context after a heading of a level
HeadingCtx(c, level, text) ==
    IF level = "title" THEN [title |-> Some(text), h1 |-> None, h2 |-> None]
    ELSE IF level = "h1" THEN [c EXCEPT !.h1 = Some(text), !.h2 = None]
    ELSE IF level = "h2" THEN [c EXCEPT !.h2 = Some(text)]
    ELSE c

PdfToQdrantBegin ==
    /\ extractor = "pdf_to_qdrant_jsonl"
    /\ pc = "idle" /\ doc_no < MaxDocs
    /\ doc_no' = doc_no + 1
    /\ running_chunk_index' = 0
    /\ out_file' = Some(<<>>)
    /\ ctx' = NoCtx
    /\ page_index' = 0
    /\ pc' = "pages"
    /\ UNCHANGED <<nonExtractVars, entry, extractor, max_chars,
                   overlap_chars, n_lines, body_font,
                   hf_texts, prev_y1, para_lines, blocks, current_section,
                   block_index, out_chunks, uuid_ctr>>

PdfToQdrantPage ==
    /\ extractor = "pdf_to_qdrant_jsonl"
    /\ pc = "pages" /\ page_index < MaxPages
    /\ body_font' \in PageBodySizes
    /\ pc' = "page"
    /\ UNCHANGED <<nonExtractVars, entry, extractor, max_chars,
                   overlap_chars, doc_no, page_index,
                   n_lines, hf_texts, prev_y1, para_lines, blocks,
                   current_section, ctx, block_index, out_chunks,
                   running_chunk_index, out_file, uuid_ctr>>

\* the body of "for b in blocks" of pdf_to_qdrant_jsonl
QdrantBlockStep(b, page_h) ==
    LET text == NormalizedText[b.text]
        level == classify_level(b.size, body_font)
        is_heading == /\ level \in {"title", "h1", "h2"}
                      /\ (b.bold \/ looks_like_heading(text))
        chunks == QdrantChunks[b.text]
        rec(k) == [id |-> uuid_ctr + k,
                   text |-> chunks[k],
                   metadata |-> [source_file |-> DocNames[doc_no],
                                 page |-> page_index + 1,
                                 bbox |-> b.bbox,
                                 title |-> ctx.title,
                                 h1 |-> ctx.h1,
                                 h2 |-> ctx.h2,
                                 chunk_index |-> running_chunk_index + k - 1]]
    IN  IF \/ text = <<>>
           \/ is_header_footer_bbox(b.bbox, page_h) /\ ~looks_like_heading(text)
        THEN UNCHANGED <<ctx, out_file, running_chunk_index, uuid_ctr>>
        ELSE IF is_heading
        THEN /\ ctx' = HeadingCtx(ctx, level, text)
             /\ UNCHANGED <<out_file, running_chunk_index, uuid_ctr>>
        ELSE /\ out_file' = Some(out_file[1] \o [k \in 1..Len(chunks) |-> rec(k)])
             /\ running_chunk_index' = running_chunk_index + Len(chunks)
             /\ uuid_ctr' = uuid_ctr + Len(chunks)
             /\ UNCHANGED ctx

\* one iteration of "for b in blocks"
PdfToQdrantBlock(b, page_h) ==
    /\ extractor = "pdf_to_qdrant_jsonl"
    /\ pc = "page" /\ n_lines < MaxLines
    /\ n_lines' = n_lines + 1
    /\ QdrantBlockStep(b, page_h)
    /\ UNCHANGED <<nonExtractVars, entry, extractor, max_chars,
                   overlap_chars, pc, doc_no, page_index,
                   body_font, hf_texts, prev_y1, para_lines, blocks,
                   current_section, block_index, out_chunks>>

PdfToQdrantEndPage ==
    /\ extractor = "pdf_to_qdrant_jsonl"
    /\ pc = "page"
    /\ page_index' = page_index + 1
    /\ pc' = "pages"
    /\ UNCHANGED <<nonExtractVars, entry, extractor, max_chars,
                   overlap_chars, doc_no, n_lines,
                   body_font, hf_texts, prev_y1, para_lines, blocks,
                   current_section, ctx, block_index, out_chunks,
                   running_chunk_index, out_file, uuid_ctr>>

PdfToQdrantEnd ==
    /\ extractor = "pdf_to_qdrant_jsonl"
    /\ pc = "pages"
    /\ pc' = "idle"
    /\ UNCHANGED <<nonExtractVars, entry, extractor, max_chars,
                   overlap_chars, doc_no, page_index,
                   n_lines, body_font, hf_texts, prev_y1, para_lines, blocks,
                   current_section, ctx, block_index, out_chunks,
                   running_chunk_index, out_file, uuid_ctr>>

\* page.get_text("dict") raises on a page that cannot be read; the exception
\* leaves the "with" block, which closes the output file with what was
\* written to it, and it leaves the caller
PdfToQdrantRaise ==
    /\ extractor = "pdf_to_qdrant_jsonl"
    /\ pc = "pages" /\ page_index < MaxPages
    /\ pc' = "Exception"
    /\ UNCHANGED <<nonExtractVars, entry, extractor, max_chars,
                   overlap_chars, doc_no, page_index,
                   n_lines, body_font, hf_texts, prev_y1, para_lines, blocks,
                   current_section, ctx, block_index, out_chunks,
                   running_chunk_index, out_file, uuid_ctr>>

(***************************************************************************)
(* extract_designing_ai2.py: extract_all_text, driven by create_extracts.  *)
(* A block is [text, size, bold].                                          *)
(***************************************************************************)
\* " > ".join(parts)
RECURSIVE JoinPath(_)
JoinPath(parts) ==
    IF parts = <<>> THEN <<>>
    ELSE IF Len(parts) = 1 THEN parts[1]
    ELSE parts[1] \o <<SP, ">", SP>> \o JoinPath(Tail(parts))

\* the slots that hold a text, in the order title, h1, h2
SectionPath(c) ==
    LET slots == SelectSeq(<<c.title, c.h1, c.h2>>, LAMBDA x : x # None /\ x[1] # <<>>)
        path == JoinPath([i \in 1..Len(slots) |-> slots[i][1]])
    IN  IF path = <<>> THEN None ELSE Some(path)

\* the first 12 hex digits of the SHA-1 of a text
short_hash(text) == <<"sha1", text>>

ExtractAllBegin ==
    /\ extractor = "extract_all_text"
    /\ pc = "idle" /\ doc_no < MaxDocs
    /\ doc_no' = doc_no + 1
    /\ ctx' = NoCtx
    /\ running_chunk_index' = 0
    /\ out_file' = Some(<<>>)
    /\ page_index' = 0
    /\ pc' = "pages"
    /\ UNCHANGED <<nonExtractVars, entry, extractor, max_chars,
                   overlap_chars, n_lines, body_font,
                   hf_texts, prev_y1, para_lines, blocks, current_section,
                   block_index, out_chunks, uuid_ctr>>

ExtractAllPage ==
    /\ extractor = "extract_all_text"
    /\ pc = "pages" /\ page_index < MaxPages
    /\ body_font' \in PageBodySizes
    /\ block_index' = 0
    /\ pc' = "page"
    /\ UNCHANGED <<nonExtractVars, entry, extractor, max_chars,
                   overlap_chars, doc_no, page_index,
                   n_lines, hf_texts, prev_y1, para_lines, blocks,
                   current_section, ctx, out_chunks, running_chunk_index,
                   out_file, uuid_ctr>>

\* the body of "for block_index, b in enumerate(blocks)"
AllTextBlockStep(b) ==
    LET text == NormalizedText[b.text]
        level == classify(b.size, body_font)
        c == HeadingCtx(ctx, level, text)
        chunks == AllTextChunks[b.text]
        rec(k) == [id |-> uuid_ctr + k,
                   text |-> chunks[k],
                   metadata |-> [source_file |-> DocNames[doc_no],
                                 page |-> page_index + 1,
                                 reading_order |-> block_index,
                                 part_index |-> k - 1,
                                 level |-> level,
                                 font_size_avg |-> b.size,
                                 is_bold |-> b.bold,
                                 title |-> c.title,
                                 h1 |-> c.h1,
                                 h2 |-> c.h2,
                                 section_path |-> SectionPath(c),
                                 text_hash |-> short_hash(chunks[k]),
                                 chunk_index |-> running_chunk_index + k - 1]]
    IN  IF text = <<>>
        THEN UNCHANGED <<ctx, out_file, running_chunk_index, uuid_ctr>>
        ELSE /\ ctx' = c
             /\ out_file' = Some(out_file[1] \o [k \in 1..Len(chunks) |-> rec(k)])
             /\ running_chunk_index' = running_chunk_index + Len(chunks)
             /\ uuid_ctr' = uuid_ctr + Len(chunks)

\* one iteration of "for block_index, b in enumerate(blocks)"
ExtractAllBlock(b) ==
    /\ extractor = "extract_all_text"
    /\ pc = "page" /\ n_lines < MaxLines
    /\ n_lines' = n_lines + 1
    /\ block_index' = block_index + 1
    /\ AllTextBlockStep(b)
    /\ UNCHANGED <<nonExtractVars, entry, extractor, max_chars,
                   overlap_chars, pc, doc_no, page_index,
                   body_font, hf_texts, prev_y1, para_lines, blocks,
                   current_section, out_chunks>>

ExtractAllEndPage ==
    /\ extractor = "extract_all_text"
    /\ pc = "page"
    /\ page_index' = page_index + 1
    /\ pc' = "pages"
    /\ UNCHANGED <<nonExtractVars, entry, extractor, max_chars,
                   overlap_chars, doc_no, n_lines,
                   body_font, hf_texts, prev_y1, para_lines, blocks,
                   current_section, ctx, block_index, out_chunks,
                   running_chunk_index, out_file, uuid_ctr>>

ExtractAllEnd ==
    /\ extractor = "extract_all_text"
    /\ pc = "pages"
    /\ pc' = "idle"
    /\ UNCHANGED <<nonExtractVars, entry, extractor, max_chars,
                   overlap_chars, doc_no, page_index,
                   n_lines, body_font, hf_texts, prev_y1, para_lines, blocks,
                   current_section, ctx, block_index, out_chunks,
                   running_chunk_index, out_file, uuid_ctr>>

\* page.get_text("dict") raises on a page that cannot be read; the exception
\* leaves the "with" block, which closes the output file with what was
\* written to it, and it leaves create_extracts
ExtractAllRaise ==
    /\ extractor = "extract_all_text"
    /\ pc = "pages" /\ page_index < MaxPages
    /\ pc' = "Exception"
    /\ UNCHANGED <<nonExtractVars, entry, extractor, max_chars,
                   overlap_chars, doc_no, page_index,
                   n_lines, body_font, hf_texts, prev_y1, para_lines, blocks,
                   current_section, ctx, block_index, out_chunks,
                   running_chunk_index, out_file, uuid_ctr>>

(***************************************************************************)
(* JSON lines.  A parsed JSON value carries its type; json.dumps turns the *)
(* values of a chunk dict into JSON values, one dict a line.               *)
(***************************************************************************)
JNull == [t |-> "null"]
JStr(s) == [t |-> "str", v |-> s]
JNum(n) == [t |-> "num", v |-> n]
JBool(b) == [t |-> "bool", v |-> b]
JList(l) == [t |-> "list", v |-> l]
JObj(o) == [t |-> "obj", v |-> o]
BlankLine == [t |-> "blank"]

\* the JSON value of a chunk dict's entry
ToJson(key, v) ==
    IF key \in {"page", "chunk_index"} THEN JNum(v)
    ELSE IF key = "section" THEN (IF v = None THEN JNull ELSE JStr(v[1]))
    ELSE IF key = "is_heading" THEN JBool(v)
    ELSE IF key = "embeddings" THEN JList(v)
    ELSE JStr(v)

json_dumps(row) == JObj([k \in DOMAIN row |-> ToJson(k, row[k])])

(***************************************************************************)
(* The vector index behind QdrantClient.  A collection is [size, distance, *)
(* points]; a call answers [ok, cols], ok = FALSE where the server answers *)
(* with an error and the client raises.                                    *)
(***************************************************************************)
collection_name == "docs"

get_collections(cols) == DOMAIN cols

\* a create call that answers success and creates nothing
CreateNothing(cols, name, size, distance) == [ok |-> TRUE, cols |-> cols]

\* creating a collection that exists is an error of the server
create_collection(cols, name, size, distance) ==
    IF name \in DOMAIN cols THEN [ok |-> FALSE, cols |-> cols]
    ELSE [ok |-> TRUE,
          cols |-> [n \in DOMAIN cols \cup {name} |->
                       IF n = name
                       THEN [size |-> size, distance |-> distance,
                             points |-> <<>>]
                       ELSE cols[n]]]

delete_collection(cols, name) == [n \in DOMAIN cols \ {name} |-> cols[n]]

\* the stored points after an upsert: a point replaces the one of its id
Stored(old, new) ==
    SelectSeq(old, LAMBDA q : \A i \in 1..Len(new) : new[i].id # q.id)
    \o Kept(new, LAMBDA s, i : \A j \in (i + 1)..Len(s) : s[j].id # s[i].id)

\* the server refuses the request if the collection is missing or a vector
\* has not the collection's size
upsert(cols, name, points) ==
    IF \/ name \notin DOMAIN cols
       \/ \E i \in 1..Len(points) : Len(points[i].vector) # cols[name].size
    THEN [ok |-> FALSE, cols |-> cols]
    ELSE [ok |-> TRUE,
          cols |-> [cols EXCEPT ![name].points = Stored(@, points)]]

UpsertCalls == SelectSeq(client_calls, LAMBDA c : c.op = "upsert")

(***************************************************************************)
(* embed_chunks (embeddings/embed_chunks.py and certificates/__init__.py), *)
(* create_embeddings and recreate_collection.  The list being embedded is  *)
(* out_chunks; the embedding service answers a request with k vectors or   *)
(* with an HTTP error.                                                     *)
(***************************************************************************)
MinEmbedBatch == 1
MaxCerts == 3

DEFAULT_BATCH == 64
DEFAULT_VECTOR_SIZE == 1024

model == "bge-m3"

\* the vectors of a response to the batch that starts after b
Embeddings(b, k) == [j \in 1..k |-> <<b + j, 0>>]

\* certificates.json has n entries; load_certificates makes a chunk of each
load_certificates(n) ==
    [i \in 1..n |->
        [content |-> <<"c", SP, "e">>,
         metadata |-> [Name |-> <<"e">>, Issued |-> <<"1">>]]]

\* "for item, emb in zip(batch, embs)": the items that get a vector
Zipped(chunks, b, n, embs) ==
    [i \in 1..Len(chunks) |->
        IF b < i /\ i <= b + Min(n, Len(embs))
        THEN SetKey(SetKey(chunks[i], "embedding_model", model),
                    "embeddings", embs[i - b])
        ELSE chunks[i]]

\* recreate_collection up to its call of embed_chunks: the collection is
\* deleted if it exists and created, the certificates are loaded
RecreateCollectionBegin(n, size) ==
    /\ entry = "recreate_collection"
    /\ pc = "idle" /\ doc_no < MaxDocs
    /\ doc_no' = doc_no + 1
    /\ LET listed == get_collections(collections)
           dropped == IF collection_name \in listed
                      THEN delete_collection(collections, collection_name)
                      ELSE collections
           made == create_collection(dropped, collection_name, size, "Cosine")
       IN  /\ collections' = made.cols
           /\ client_calls' =
                  client_calls
                  \o <<[op |-> "get_collections", worker |-> 0,
                        result |-> listed]>>
                  \o (IF collection_name \in listed
                      THEN <<[op |-> "delete_collection", worker |-> 0]>>
                      ELSE <<>>)
                  \o <<[op |-> "create_collection", worker |-> 0,
                        size |-> size, distance |-> "Cosine",
                        ok |-> made.ok]>>
    /\ out_chunks' = load_certificates(n)
    /\ embed_b' = 0
    /\ embed_vectors' = <<>>
    /\ embed_log' = <<>>
    /\ pc' = "embed"
    /\ UNCHANGED <<embed_batch_size, uploadVars, splitVars, callVars, entry, extractor,
                   max_chars, overlap_chars, page_index, n_lines, body_font,
                   hf_texts, prev_y1, para_lines, blocks, current_section,
                   ctx, block_index, running_chunk_index, out_file,
                   uuid_ctr>>

\* one iteration of "for b in range(0, len(chunks), batch_size)"; the
\* service answers with k vectors.  Only certificates.embed_chunks compares
\* k with the number of inputs.
EmbedBatch(k) ==
    /\ pc = "embed" /\ embed_b < Len(out_chunks)
    /\ LET n == Min(embed_batch_size, Len(out_chunks) - embed_b)
           embs == Embeddings(embed_b, k)
       IN  /\ k <= n + 1 /\ k + 1 >= n
           /\ embed_log' = Append(embed_log, [inputs |-> n, returned |-> k])
           /\ IF entry = "recreate_collection" /\ k # n
              THEN /\ pc' = "ValueError"
                   /\ UNCHANGED <<out_chunks, embed_b, embed_vectors>>
              ELSE /\ out_chunks' = Zipped(out_chunks, embed_b, n, embs)
                   /\ embed_vectors' =
                          IF entry = "recreate_collection"
                          THEN embed_vectors \o embs ELSE embed_vectors
                   /\ embed_b' = embed_b + embed_batch_size
                   /\ pc' = pc
    /\ UNCHANGED <<embed_batch_size, indexVars, uploadVars, splitVars, callVars, entry,
                   extractor, max_chars, overlap_chars, doc_no, page_index,
                   n_lines, body_font, hf_texts, prev_y1, para_lines, blocks,
                   current_section, ctx, block_index, running_chunk_index,
                   out_file, uuid_ctr>>

\* resp.raise_for_status() raises: neither embed_chunks nor its callers
\* catch it
EmbedHttpError ==
    /\ pc = "embed" /\ embed_b < Len(out_chunks)
    /\ pc' = "HTTPError"
    /\ UNCHANGED <<nonExtractVars, entry, extractor, max_chars,
                   overlap_chars, doc_no, page_index, n_lines, body_font,
                   hf_texts, prev_y1, para_lines, blocks, current_section,
                   ctx, block_index, out_chunks, running_chunk_index,
                   out_file, uuid_ctr>>

\* embed_chunks has returned: create_embeddings writes every row
CreateEmbeddingsWrite ==
    /\ entry = "create_embeddings"
    /\ pc = "embed" /\ embed_b >= Len(out_chunks)
    /\ out_file' = Some([i \in 1..Len(out_chunks) |-> json_dumps(out_chunks[i])])
    /\ pc' = "idle"
    /\ UNCHANGED <<nonExtractVars, entry, extractor, max_chars,
                   overlap_chars, doc_no, page_index, n_lines, body_font,
                   hf_texts, prev_y1, para_lines, blocks, current_section,
                   ctx, block_index, out_chunks, running_chunk_index,
                   uuid_ctr>>

\* embed_chunks has returned: recreate_collection builds a point of every
\* payload and upserts them in one call
RecreateCollectionUpsert ==
    /\ entry = "recreate_collection"
    /\ pc = "embed" /\ embed_b >= Len(out_chunks)
    /\ IF Len(out_chunks) # Len(embed_vectors)
       THEN /\ pc' = "ValueError"
            /\ UNCHANGED <<collections, client_calls, uuid_ctr>>
       ELSE LET points == [i \in 1..Len(out_chunks) |->
                              [id |-> <<"uuid4", uuid_ctr + i>>,
                               vector |-> embed_vectors[i],
                               payload |->
                                   [doc_content |-> out_chunks[i].content,
                                    metadata |-> out_chunks[i].metadata]]]
                r == upsert(collections, collection_name, points)
            IN  /\ client_calls' = Append(client_calls,
                                     [op |-> "upsert", worker |-> 0,
                                      points |-> points, ok |-> r.ok])
                /\ collections' = r.cols
                /\ uuid_ctr' = uuid_ctr + Len(points)
                /\ pc' = IF r.ok THEN "idle" ELSE "UnexpectedResponse"
    /\ UNCHANGED <<embedVars, uploadVars, splitVars, callVars, entry, extractor,
                   max_chars, overlap_chars, doc_no, page_index, n_lines,
                   body_font, hf_texts, prev_y1, para_lines, blocks,
                   current_section, ctx, block_index, out_chunks,
                   running_chunk_index, out_file>>

(***************************************************************************)
(* upsert_emebd_to_qdrant.py: iter_jsonl_points, batched,                  *)
(* ensure_collection, upload_jsonl_dir.  A directory is a function from    *)
(* file names to the lines of the file, a line is blank or a JSON object.  *)
(***************************************************************************)
MaxRecords == 3
MinUploadBatch == 2

UPLOAD_BATCH == 256

Workers == {1, 2}

\* the *.jsonl names of the model in sorted order
FileOrder == <<"a.jsonl", "b.jsonl">>

\* sorted(Path(jsonl_dir).glob("*.jsonl"))
sorted_glob(dir) == SelectSeq(FileOrder, LAMBDA f : f \in DOMAIN dir)

\* str(data[id_field])
DigitStr == <<"1", "2", "3", "4", "5", "6", "7", "8", "9">>

str(j) ==
    IF j.t = "str" THEN j.v
    ELSE IF j.t = "num" /\ j.v \in 1..9 THEN DigitStr[j.v]
    ELSE j.t

\* dict(data.get(payload_field, {}) or {}), the text and the model added
PayloadOf(data) ==
    LET meta == IF HasKey(data, "metadata") /\ data["metadata"].t = "obj"
                THEN data["metadata"].v ELSE <<>>
        with_text == IF HasKey(data, "text") /\ ~HasKey(meta, "text")
                     THEN SetKey(meta, "text", data["text"]) ELSE meta
    IN  IF HasKey(data, "embedding_model")
           /\ ~HasKey(with_text, "embedding_model")
        THEN SetKey(with_text, "embedding_model", data["embedding_model"])
        ELSE with_text

\* the body of "for line_no, line in enumerate(f, start=1)": the line is
\* skipped, raises ValueError, or yields a point
iter_line(line) ==
    IF line.t = "blank" THEN [kind |-> "skip", point |-> None]
    ELSE IF line.t # "obj" THEN [kind |-> "error", point |-> None]
    ELSE LET data == line.v IN
         IF ~HasKey(data, "id") THEN [kind |-> "error", point |-> None]
         ELSE IF ~HasKey(data, "embeddings") \/ data["embeddings"].t = "null"
         THEN [kind |-> "error", point |-> None]
         ELSE IF data["embeddings"].t # "list" \/ Len(data["embeddings"].v) = 0
         THEN [kind |-> "skip", point |-> None]
         ELSE IF HasKey(data, "metadata")
                 /\ data["metadata"].t \notin {"obj", "null"}
         THEN [kind |-> "error", point |-> None]
         ELSE [kind |-> "point",
               point |-> [id |-> str(data["id"]),
                          vector |-> data["embeddings"].v,
                          payload |-> PayloadOf(data)]]

FirstLine == [file |-> 1, line |-> 1]

\* next(point_iter) with the generator at pos: a point, StopIteration or
\* the ValueError of a line
RECURSIVE NextPoint(_, _)
NextPoint(dir, pos) ==
    LET files == sorted_glob(dir) IN
    IF pos.file > Len(files)
    THEN [kind |-> "stop", point |-> None, pos |-> pos]
    ELSE LET lines == dir[files[pos.file]] IN
         IF pos.line > Len(lines)
         THEN NextPoint(dir, [file |-> pos.file + 1, line |-> 1])
         ELSE LET r == iter_line(lines[pos.line])
                  after == [pos EXCEPT !.line = @ + 1]
              IN  IF r.kind = "skip" THEN NextPoint(dir, after)
                  ELSE [kind |-> r.kind, point |-> r.point, pos |-> after]

\* list(islice(it, batch_size)), acc being what is taken so far
RECURSIVE islice(_, _, _, _)
islice(acc, dir, pos, n) ==
    IF Len(acc) >= n THEN [kind |-> "ok", batch |-> acc, pos |-> pos]
    ELSE LET r == NextPoint(dir, pos) IN
         IF r.kind = "point" THEN islice(Append(acc, r.point), dir, r.pos, n)
         ELSE IF r.kind = "stop"
         THEN [kind |-> "ok", batch |-> acc, pos |-> r.pos]
         ELSE [kind |-> "error", batch |-> <<>>, pos |-> r.pos]

\* a chain that continues with point_iter at once
ChainWithoutFirst(first) == <<>>

\* what chain_first() yields before it continues with point_iter
chain_first(first) == <<first>>

\* batches that are one point short
BatchedShort(head, dir, pos, n) == islice(head, dir, pos, n - 1)

\* the next batch of batched(chain_first(), batch_size)
batched(head, dir, pos, n) == islice(head, dir, pos, n)

\* where ensure_collection returns to
Return(w) == IF w_entry[w] = "upload_jsonl_dir" THEN "upsert" ELSE "done"

\* "for first_point in point_iter: break", then vector_size
UploadPeek(w) ==
    /\ w_pc[w] = "peek"
    /\ LET r == NextPoint(jsonl_dir, point_pos[w]) IN
       /\ point_pos' = [point_pos EXCEPT ![w] = r.pos]
       /\ IF r.kind = "point"
          THEN /\ first_point' = [first_point EXCEPT ![w] = Some(r.point)]
               /\ vector_size' = [vector_size EXCEPT ![w] = Len(r.point.vector)]
               /\ chain_head' = [chain_head EXCEPT ![w] = chain_first(r.point)]
               /\ w_pc' = [w_pc EXCEPT ![w] = "ensure_list"]
          ELSE /\ w_pc' = [w_pc EXCEPT ![w] = IF r.kind = "stop"
                                             THEN "RuntimeError"
                                             ELSE "ValueError"]
               /\ UNCHANGED <<first_point, vector_size, chain_head>>
    /\ UNCHANGED <<extractVars, embedVars, indexVars, splitVars, callVars, jsonl_dir,
                   batch_size, w_entry, recreate, exists>>

\* a delete of whatever collection is found
AfterListDeleting(rec, found, ret) ==
    IF found THEN "ensure_delete" ELSE "ensure_create"

\* ensure_collection after the listing: "if recreate and exists" leads to the
\* delete, "if not exists" to the create, anything else to the return
AfterList(rec, found, ret) ==
    IF rec /\ found THEN "ensure_delete"
    ELSE IF ~found THEN "ensure_create"
    ELSE ret

\* ensure_collection: client.get_collections() and the test of the name
EnsureList(w) ==
    /\ w_pc[w] = "ensure_list"
    /\ LET listed == get_collections(collections)
           found == collection_name \in listed
       IN  /\ client_calls' = Append(client_calls,
                                  [op |-> "get_collections", worker |-> w,
                                   result |-> listed])
           /\ exists' = [exists EXCEPT ![w] = found]
           /\ w_pc' = [w_pc EXCEPT ![w] =
                          AfterList(recreate[w], found, Return(w))]
    /\ UNCHANGED <<extractVars, embedVars, splitVars, callVars, collections, jsonl_dir,
                   batch_size, w_entry, vector_size, recreate, point_pos,
                   first_point, chain_head>>

\* ensure_collection: client.delete_collection(), exists = False
EnsureDelete(w) ==
    /\ w_pc[w] = "ensure_delete"
    /\ collections' = delete_collection(collections, collection_name)
    /\ client_calls' = Append(client_calls,
                           [op |-> "delete_collection", worker |-> w])
    /\ exists' = [exists EXCEPT ![w] = FALSE]
    /\ w_pc' = [w_pc EXCEPT ![w] = "ensure_create"]
    /\ UNCHANGED <<extractVars, embedVars, splitVars, callVars, jsonl_dir, batch_size,
                   w_entry, vector_size, recreate, point_pos, first_point,
                   chain_head>>

\* ensure_collection: client.create_collection(); its error is not caught
EnsureCreate(w) ==
    /\ w_pc[w] = "ensure_create"
    /\ LET r == create_collection(collections, collection_name,
                                  vector_size[w], "Cosine")
       IN  /\ collections' = r.cols
           /\ client_calls' = Append(client_calls,
                                  [op |-> "create_collection", worker |-> w,
                                   size |-> vector_size[w],
                                   distance |-> "Cosine", ok |-> r.ok])
           /\ w_pc' = [w_pc EXCEPT ![w] = IF r.ok THEN Return(w)
                                          ELSE "UnexpectedResponse"]
    /\ UNCHANGED <<extractVars, embedVars, splitVars, callVars, jsonl_dir, batch_size,
                   w_entry, vector_size, recreate, exists, point_pos,
                   first_point, chain_head>>

\* one iteration of "for points in batched(chain_first(), batch_size)":
\* the batch is read, then upserted; the loop ends at an empty batch
UploadBatch(w) ==
    /\ w_pc[w] = "upsert"
    /\ LET b == batched(chain_head[w], jsonl_dir, point_pos[w], batch_size)
           r == upsert(collections, collection_name, b.batch)
       IN  /\ point_pos' = [point_pos EXCEPT ![w] = b.pos]
           /\ chain_head' = [chain_head EXCEPT ![w] = <<>>]
           /\ IF b.kind = "error"
              THEN /\ w_pc' = [w_pc EXCEPT ![w] = "ValueError"]
                   /\ UNCHANGED <<collections, client_calls>>
              ELSE IF b.batch = <<>>
              THEN /\ w_pc' = [w_pc EXCEPT ![w] = "done"]
                   /\ UNCHANGED <<collections, client_calls>>
              ELSE /\ client_calls' = Append(client_calls,
                                         [op |-> "upsert", worker |-> w,
                                          points |-> b.batch, ok |-> r.ok])
                   /\ collections' = r.cols
                   /\ w_pc' = [w_pc EXCEPT ![w] = IF r.ok THEN "upsert"
                                                  ELSE "UnexpectedResponse"]
    /\ UNCHANGED <<extractVars, embedVars, splitVars, callVars, jsonl_dir, batch_size,
                   w_entry, vector_size, recreate, exists, first_point>>

(***************************************************************************)
(* A call of split_into_chunks or split_chunks on a text.                  *)
(***************************************************************************)
MaxTextLen == 4
MaxSplitChars == 3

SplitIntoChunksCall ==
    /\ split_fn = "split_into_chunks" /\ split_result = None
    /\ split_result' =
           Some(split_into_chunks(split_text, split_max_chars, split_overlap))
    /\ UNCHANGED <<extractVars, embedVars, indexVars, uploadVars, callVars,
                   split_fn, split_text, split_max_chars, split_overlap>>

SplitChunksCall ==
    /\ split_fn = "split_chunks" /\ split_result = None
    /\ split_result' =
           Some(split_chunks(split_text, split_max_chars, split_overlap))
    /\ UNCHANGED <<extractVars, embedVars, indexVars, uploadVars, callVars,
                   split_fn, split_text, split_max_chars, split_overlap>>

(***************************************************************************)
(* extract_designing_ai2.py: split_chunks, one loop iteration a step.  The *)
(* hard split of split_into_chunks is the same loop.                       *)
(***************************************************************************)
MaxLoopChunks == 4

\* a window start that stays where it is
SameStart(start, end, overlap) == start

\* start = max(0, end - overlap)
NextStart(start, end, overlap) == Max(0, end - overlap)

\* the call up to the loop: a short text is returned whole
SplitChunksEnter ==
    /\ split_pc = "call"
    /\ IF Len(split_text) <= split_max_chars
       THEN /\ split_result' = Some(<<split_text>>)
            /\ split_pc' = "returned"
       ELSE /\ split_pc' = "loop"
            /\ UNCHANGED split_result
    /\ split_start' = 0
    /\ split_acc' = <<>>
    /\ UNCHANGED <<extractVars, embedVars, indexVars, uploadVars, outlineVars,
                   docVars, split_fn, split_text, split_max_chars,
                   split_overlap>>

\* one iteration of "while start < len(text)"
SplitChunksIter ==
    /\ split_pc = "loop"
    /\ Len(split_acc) < MaxLoopChunks
    /\ LET end == Min(split_start + split_max_chars, Len(split_text))
           chunk == Strip(Slice(split_text, split_start, end))
           out == IF chunk # <<>> THEN Append(split_acc, chunk) ELSE split_acc
       IN  IF split_start >= Len(split_text) \/ end >= Len(split_text)
           THEN /\ split_acc' = IF split_start >= Len(split_text)
                                 THEN split_acc ELSE out
                /\ split_result' = Some(split_acc')
                /\ split_pc' = "returned"
                /\ UNCHANGED split_start
           ELSE /\ split_acc' = out
                /\ split_start' = NextStart(split_start, end, split_overlap)
                /\ UNCHANGED <<split_result, split_pc>>
    /\ UNCHANGED <<extractVars, embedVars, indexVars, uploadVars, outlineVars,
                   docVars, split_fn, split_text, split_max_chars,
                   split_overlap>>

(***************************************************************************)
(* Initial states and runs.                                                *)
(***************************************************************************)
ExtractOff ==
    /\ pc = "idle"
    /\ doc_no = 0
    /\ page_index = 0
    /\ n_lines = 0
    /\ body_font = 10
    /\ hf_texts = {}
    /\ prev_y1 = None
    /\ para_lines = <<>>
    /\ blocks = <<>>
    /\ current_section = None
    /\ ctx = NoCtx
    /\ block_index = 0
    /\ out_chunks = <<>>
    /\ running_chunk_index = 0
    /\ out_file = None
    /\ uuid_ctr = 0

\* no extractor runs
NoExtract ==
    /\ extractor = "none"
    /\ max_chars = 0
    /\ overlap_chars = 0
    /\ ExtractOff

EmbedOff ==
    /\ embed_batch_size = DEFAULT_BATCH
    /\ embed_b = 0
    /\ embed_vectors = <<>>
    /\ embed_log = <<>>

IndexOff ==
    /\ collections = <<>>
    /\ client_calls = <<>>

UploadOff ==
    /\ jsonl_dir = <<>>
    /\ batch_size = UPLOAD_BATCH
    /\ w_entry = [w \in Workers |-> "off"]
    /\ w_pc = [w \in Workers |-> "off"]
    /\ vector_size = [w \in Workers |-> 0]
    /\ recreate = [w \in Workers |-> FALSE]
    /\ exists = [w \in Workers |-> FALSE]
    /\ point_pos = [w \in Workers |-> FirstLine]
    /\ first_point = [w \in Workers |-> None]
    /\ chain_head = [w \in Workers |-> <<>>]

SplitOff ==
    /\ split_fn = "none"
    /\ split_text = <<>>
    /\ split_max_chars = 0
    /\ split_overlap = 0
    /\ split_result = None

LoopOff ==
    /\ split_pc = "off"
    /\ split_start = 0
    /\ split_acc = <<>>

OutlineOff ==
    /\ outline_pc = "off"
    /\ headings = <<>>
    /\ tree = None
    /\ markdown = None
    /\ detected = <<>>

DocOff ==
    /\ lines_per_page = <<>>
    /\ page_heights = <<>>
    /\ line_no = 0
    /\ filter_pc = "off"
    /\ header_footer = <<{}, {}>>
    /\ filtered = <<>>
    /\ refiltered = <<>>

CallOff == LoopOff /\ OutlineOff /\ DocOff

\* create_chunks calls extract_chunks_from_pdf with its defaults; the model
\* draws the two parameters from small values with overlap < max_chars
ChunksInit ==
    /\ entry = "create_chunks"
    /\ extractor = "extract_chunks_from_pdf"
    /\ max_chars \in {MinChars, MaxChars}
    /\ overlap_chars \in 0..Min(MaxOverlap, max_chars - 1)
    /\ ExtractOff
    /\ EmbedOff /\ IndexOff /\ UploadOff /\ SplitOff /\ CallOff

ExtractInit ==
    \/ ChunksInit
    \/ /\ entry = "create_extracts"
       /\ extractor \in {"pdf_to_qdrant_jsonl", "extract_all_text"}
       /\ max_chars = MAX_CHARS
       /\ overlap_chars = OVERLAP_CHARS
       /\ ExtractOff
       /\ EmbedOff /\ IndexOff /\ UploadOff /\ SplitOff /\ CallOff

\* the index before a run: empty, or with the collection and a point in it
OldPoint == [id |-> "p0", vector |-> <<9, 9>>, payload |-> <<>>]

InitialCollections ==
    {<<>>,
     [n \in {collection_name} |->
         [size |-> 2, distance |-> "Cosine", points |-> <<OldPoint>>]]}

\* create_embeddings over a directory of PDFs, or recreate_collection
EmbedInit ==
    /\ \/ /\ entry = "create_embeddings"
          /\ extractor = "extract_chunks_from_pdf"
          /\ max_chars = MinChars
          /\ overlap_chars = 0
          /\ collections = <<>>
       \/ /\ entry = "recreate_collection"
          /\ extractor = "none"
          /\ max_chars = 0
          /\ overlap_chars = 0
          /\ collections \in InitialCollections
    /\ ExtractOff
    /\ embed_batch_size \in {MinEmbedBatch, DEFAULT_BATCH}
    /\ embed_b = 0
    /\ embed_vectors = <<>>
    /\ embed_log = <<>>
    /\ client_calls = <<>>
    /\ UploadOff /\ SplitOff /\ CallOff

\* the lines a *.jsonl file can have
LinePool ==
    {BlankLine,
     JObj([id |-> JStr("p1"), text |-> JStr(<<"a">>),
           metadata |-> JObj([source_file |-> JStr("a.pdf"),
                              chunk_index |-> JNum(0)]),
           embedding_model |-> JStr(model),
           embeddings |-> JList(<<1, 2>>)]),
     JObj([id |-> JStr("p2"), metadata |-> JNull,
           embeddings |-> JList(<<3, 4>>)]),
     JObj([id |-> JNum(7), text |-> JStr(<<"b">>),
           embeddings |-> JList(<<5, 6, 7>>)]),
     JObj([id |-> JStr("e"), embeddings |-> JList(<<>>)]),
     JObj([id |-> JStr("s"), embeddings |-> JStr("x")]),
     JObj([id |-> JStr("n"), embeddings |-> JNull]),
     JObj([text |-> JStr(<<"c">>), embeddings |-> JList(<<1, 2>>)])}

SeqsUpTo(S, n) == UNION {[1..k -> S] : k \in 0..n}

\* the directory with the first k of the lines in a.jsonl, the rest in
\* b.jsonl
DirOf(lines, k) ==
    [f \in {"a.jsonl", "b.jsonl"} |->
        IF f = "a.jsonl" THEN SubSeq(lines, 1, k)
        ELSE SubSeq(lines, k + 1, Len(lines))]

\* upload_jsonl_dir run by one worker
UploadInit ==
    /\ entry = "upload"
    /\ NoExtract /\ EmbedOff /\ SplitOff /\ CallOff
    /\ collections \in InitialCollections
    /\ client_calls = <<>>
    /\ \E lines \in SeqsUpTo(LinePool, MaxRecords) :
           \E k \in 0..Len(lines) : jsonl_dir = DirOf(lines, k)
    /\ batch_size \in {MinUploadBatch, UPLOAD_BATCH}
    /\ w_entry = [w \in Workers |-> IF w = 1 THEN "upload_jsonl_dir" ELSE "off"]
    /\ w_pc = [w \in Workers |-> IF w = 1 THEN "peek" ELSE "off"]
    /\ vector_size = [w \in Workers |-> 0]
    /\ recreate = [w \in Workers |-> FALSE]
    /\ exists = [w \in Workers |-> FALSE]
    /\ point_pos = [w \in Workers |-> FirstLine]
    /\ first_point = [w \in Workers |-> None]
    /\ chain_head = [w \in Workers |-> <<>>]

\* ensure_collection called by every worker at the same time
RaceInit ==
    /\ entry = "ensure_collection"
    /\ NoExtract /\ EmbedOff /\ SplitOff /\ CallOff
    /\ collections \in InitialCollections
    /\ client_calls = <<>>
    /\ jsonl_dir = <<>>
    /\ batch_size = UPLOAD_BATCH
    /\ w_entry = [w \in Workers |-> "ensure_collection"]
    /\ w_pc = [w \in Workers |-> "ensure_list"]
    /\ vector_size \in [Workers -> {2, 3}]
    /\ recreate \in [Workers -> BOOLEAN]
    /\ exists = [w \in Workers |-> FALSE]
    /\ point_pos = [w \in Workers |-> FirstLine]
    /\ first_point = [w \in Workers |-> None]
    /\ chain_head = [w \in Workers |-> <<>>]

\* a paragraph of 250 characters without a blank line
Paragraph ==
    {[i \in 1..250 |-> IF i % 2 = 0 THEN "a" ELSE "b"],
     [i \in 1..250 |-> IF i % 6 = 0 THEN SP ELSE "c"]}

SplitTexts == SeqsUpTo({"a", SP, NL}, MaxTextLen)

SplitCallInit ==
    /\ entry = "split"
    /\ NoExtract /\ EmbedOff /\ IndexOff /\ UploadOff /\ CallOff
    /\ split_fn \in {"split_into_chunks", "split_chunks"}
    /\ \/ /\ split_text \in SplitTexts
          /\ split_max_chars \in 1..MaxSplitChars
          /\ split_overlap \in 0..(split_max_chars - 1)
       \/ /\ split_text \in Paragraph
          /\ split_max_chars = 100
          /\ split_overlap = 20
    /\ split_result = None

\* a call of split_chunks with any overlap a caller can pass
SplitLoopInit ==
    /\ entry = "split"
    /\ NoExtract /\ EmbedOff /\ IndexOff /\ UploadOff
    /\ split_fn = "split_chunks"
    /\ split_text \in SplitTexts
    /\ split_max_chars \in 1..MaxSplitChars
    /\ split_overlap \in 0..(MaxSplitChars + 1)
    /\ split_result = None
    /\ split_pc = "call"
    /\ split_start = 0
    /\ split_acc = <<>>
    /\ OutlineOff /\ DocOff

ChunksNext ==
    \/ ExtractChunksBegin
    \/ ExtractChunksPage
    \/ \E t \in LineTexts, sz \in LineSizes, g \in BOOLEAN :
           ExtractChunksLine([text |-> t, size |-> sz, gap |-> g])
    \/ ExtractChunksEndPage
    \/ ExtractChunksReturn
    \/ ExtractChunksRaise

PdfToQdrantNext ==
    \/ PdfToQdrantBegin
    \/ PdfToQdrantPage
    \/ \E t \in BlockTexts, st \in BlockStyles, bb \in BBoxes, ph \in PageHeights :
           PdfToQdrantBlock([text |-> t, size |-> st.size, bold |-> st.bold,
                             bbox |-> bb], ph)
    \/ PdfToQdrantEndPage
    \/ PdfToQdrantEnd
    \/ PdfToQdrantRaise

ExtractAllNext ==
    \/ ExtractAllBegin
    \/ ExtractAllPage
    \/ \E t \in BlockTexts, st \in BlockStyles :
           ExtractAllBlock([text |-> t, size |-> st.size, bold |-> st.bold])
    \/ ExtractAllEndPage
    \/ ExtractAllEnd
    \/ ExtractAllRaise

ExtractNext == ChunksNext \/ PdfToQdrantNext \/ ExtractAllNext

EmbedNext ==
    \/ ChunksNext
    \/ \E n \in 1..MaxCerts, size \in {2, DEFAULT_VECTOR_SIZE} :
           RecreateCollectionBegin(n, size)
    \/ \E k \in 0..(MaxCerts + 1) : EmbedBatch(k)
    \/ EmbedHttpError
    \/ CreateEmbeddingsWrite
    \/ RecreateCollectionUpsert

\* upload_jsonl_dir passes recreate = False, so that the delete of
\* ensure_collection is no step of its runs
UploadNext ==
    \E w \in Workers :
        \/ UploadPeek(w)
        \/ EnsureList(w)
        \/ EnsureCreate(w)
        \/ UploadBatch(w)

RaceNext ==
    \E w \in Workers :
        \/ EnsureList(w)
        \/ EnsureDelete(w)
        \/ EnsureCreate(w)

SplitCallNext == SplitIntoChunksCall \/ SplitChunksCall

SplitLoopNext == SplitChunksEnter \/ SplitChunksIter

\* extract_chunks_from_pdf alone
SpecChunks == ChunksInit /\ [][ChunksNext]_vars

\* the three extractors
SpecExtract == ExtractInit /\ [][ExtractNext]_vars

\* chunk, embed, write; embed and upsert the certificates
SpecEmbed == EmbedInit /\ [][EmbedNext]_vars

\* one upload of a directory
SpecUpload == UploadInit /\ [][UploadNext]_vars

\* two workers in ensure_collection
SpecRace == RaceInit /\ [][RaceNext]_vars

\* the text splitters on their own
SpecSplitCall == SplitCallInit /\ [][SplitCallNext]_vars

\* split_chunks step by step, overlaps of any size
SpecSplitLoop == SplitLoopInit /\ [][SplitLoopNext]_vars

\* the same with the call running on: the interpreter takes the next
\* step of a call as long as there is one
SpecSplitLoopFair == SpecSplitLoop /\ WF_vars(SplitLoopNext)

(***************************************************************************)
(* Properties of the extractors.                                           *)
(***************************************************************************)
\* the chunk records the current document has emitted so far, in order
Emitted ==
    IF extractor = "extract_chunks_from_pdf" THEN out_chunks
    ELSE IF out_file = None THEN <<>> ELSE out_file[1]

ChunkIndexOf(rec) ==
    IF HasKey(rec, "metadata") THEN rec["metadata"]["chunk_index"]
    ELSE rec["chunk_index"]

\* C1: every chunk that extract_chunks_from_pdf emits has a text of at most
\* max_chars characters (an oversized block is hard-split, not emitted whole).
C1_ChunkWithinMaxChars ==
    \A i \in 1..Len(out_chunks) : Len(out_chunks[i]["text"]) <= max_chars

\* C3: with overlap_chars = k > 0, every chunk after the first begins with
\* the last k characters of the chunk before it, however that chunk was
\* closed (overflow, heading, end of page).
C3_OverlapLaw ==
    overlap_chars > 0 =>
        \A i \in 1..(Len(out_chunks) - 1) :
            IsPrefix(Tail_(out_chunks[i]["text"], overlap_chars),
                     out_chunks[i + 1]["text"])

\* C4: the chunk_index values of a document's records, in emission order,
\* are 0, 1, 2, ..., n-1, for each of the three extractors and for every
\* document of a run (the counter starts at 0 again for the next document).
C4_ChunkIndexCountsFromZero ==
    /\ \A i \in 1..Len(Emitted) : ChunkIndexOf(Emitted[i]) = i - 1
    /\ pc # "idle" => running_chunk_index = Len(Emitted)

\* C4 witness: a second document has emitted two records after the first
\* document emitted some.
C4_Witness ==
    /\ doc_no = 2
    /\ Len(Emitted) >= 2
    /\ uuid_ctr > Len(Emitted)

(***************************************************************************)
(* Properties of the splitter call, the embedding and the upload.          *)
(***************************************************************************)
\* C2: split_into_chunks(text, 100, 20) on a paragraph of 250 characters
\* without a blank line gives exactly 3 chunks of at most 100 characters,
\* the 2nd starting with the last 20 characters of the 1st and the 3rd with
\* the last 20 characters of the 2nd.
C2_ParagraphOf250 ==
    ( /\ split_fn = "split_into_chunks"
      /\ split_text \in Paragraph
      /\ split_max_chars = 100 /\ split_overlap = 20
      /\ split_result # None )
    => LET c == split_result[1] IN
       /\ Len(c) = 3
       /\ \A i \in 1..3 : Len(c[i]) <= 100
       /\ IsPrefix(Tail_(c[1], 20), c[2])
       /\ IsPrefix(Tail_(c[2], 20), c[3])

\* C5: when the embedding service answers a batch with fewer or more
\* vectors than inputs, the run fails with an error, nothing is written
\* and no upsert is made for it.
C5_CountMismatchFails ==
    (\E i \in 1..Len(embed_log) :
         embed_log[i].returned # embed_log[i].inputs)
    => /\ pc \in {"ValueError", "HTTPError"}
       /\ out_file = None
       /\ Len(UpsertCalls) < doc_no

\* C6: two workers that run ensure_collection with recreate = False at the
\* same time both complete without error, whatever the interleaving of
\* their calls, and the collection exists when both are done.
C6_RacingEnsureSucceeds ==
    (\A w \in Workers : w_entry[w] = "ensure_collection" /\ ~recreate[w])
    => /\ \A w \in Workers : w_pc[w] # "UnexpectedResponse"
       /\ (\A w \in Workers : w_pc[w] = "done")
              => collection_name \in DOMAIN collections

RECURSIVE Flatten(_)
Flatten(seqs) ==
    IF seqs = <<>> THEN <<>> ELSE Head(seqs) \o Flatten(Tail(seqs))

\* the points a worker has passed to client.upsert, in call order
UpsertedBy(w) ==
    LET mine == SelectSeq(UpsertCalls, LAMBDA c : c.worker = w)
    IN  Flatten([i \in 1..Len(mine) |-> mine[i].points])

\* the valid points of a directory in input order
ValidPoints(dir) ==
    LET files == sorted_glob(dir)
        every == Flatten([i \in 1..Len(files) |-> dir[files[i]]])
        valid == SelectSeq(every, LAMBDA l : iter_line(l).kind = "point")
    IN  [i \in 1..Len(valid) |-> iter_line(valid[i]).point]

\* C7: the points passed to client.upsert, concatenated in call order, are
\* the valid points of the directory in input order (sorted files, lines in
\* file order), the peeked first point included: a prefix of them while
\* the upload runs, all of them when it is done.
C7_UpsertsFollowInputOrder ==
    \A w \in Workers :
        w_entry[w] = "upload_jsonl_dir" =>
            /\ IsPrefix(UpsertedBy(w), ValidPoints(jsonl_dir))
            /\ w_pc[w] = "done" => UpsertedBy(w) = ValidPoints(jsonl_dir)

\* C7 witness: an upload is done after two upsert calls with three points
\* read from two files.
C7_Witness ==
    /\ w_pc[1] = "done"
    /\ Len(UpsertCalls) = 2
    /\ Len(UpsertedBy(1)) = 3
    /\ jsonl_dir["a.jsonl"] # <<>> /\ jsonl_dir["b.jsonl"] # <<>>

\* C8: every upsert call of a worker comes after the worker's listing of
\* the collections and, if the collection was not listed, after its
\* successful creation with the size of the first valid point's vector and
\* cosine distance; the collection exists whenever the worker is about to
\* upsert.
C8_EnsuredBeforeUpsert ==
    /\ \A i \in 1..Len(client_calls) :
           client_calls[i].op = "upsert" =>
               \E j \in 1..(i - 1) :
                   /\ client_calls[j].op = "get_collections"
                   /\ client_calls[j].worker = client_calls[i].worker
                   /\ \/ collection_name \in client_calls[j].result
                      \/ \E k \in (j + 1)..(i - 1) :
                             /\ client_calls[k].op = "create_collection"
                             /\ client_calls[k].worker = client_calls[i].worker
                             /\ client_calls[k].ok
                             /\ client_calls[k].distance = "Cosine"
                             /\ client_calls[k].size =
                                    Len(ValidPoints(jsonl_dir)[1].vector)
    /\ \A w \in Workers :
           w_pc[w] = "upsert" => collection_name \in DOMAIN collections

\* C8 witness: a collection that was absent has been created and an upsert
\* call made.
C8_Witness ==
    /\ \E i \in 1..Len(client_calls) : client_calls[i].op = "create_collection"
    /\ UpsertCalls # <<>>

\* C9: every point passed to client.upsert has a vector of the length of
\* the first valid point's vector; a record with a vector of another
\* length is never part of an upsert call.
C9_UpsertedVectorsOfOneSize ==
    \A i \in 1..Len(UpsertCalls) :
        \A j \in 1..Len(UpsertCalls[i].points) :
            Len(UpsertCalls[i].points[j].vector)
                = vector_size[UpsertCalls[i].worker]

\* C10: every line create_embeddings writes (here: after the service has
\* answered every batch with a vector per input) is read by
\* iter_jsonl_points without error, and the point carries the record's id,
\* its vector and a payload with the text and the metadata fields
\* source_file, page, chunk_index and section of the record.
C10_WrittenRecordsAreRead ==
    ( /\ entry = "create_embeddings" /\ out_file # None
      /\ \A i \in 1..Len(embed_log) :
             embed_log[i].returned = embed_log[i].inputs ) =>
        \A i \in 1..Len(out_file[1]) :
            LET line == out_file[1][i]
                r == iter_line(line)
            IN  /\ r.kind = "point"
                /\ HasKey(line.v, "id") /\ r.point.id = str(line.v["id"])
                /\ r.point.vector = line.v["embeddings"].v
                /\ \A key \in {"text", "source_file", "page", "chunk_index",
                               "section"} :
                       /\ HasKey(r.point.payload, key)
                       /\ r.point.payload[key] = line.v[key]

\* every line of a directory, files in sorted order
AllLines(dir) ==
    LET files == sorted_glob(dir)
    IN  Flatten([i \in 1..Len(files) |-> dir[files[i]]])

\* C11: when an upload ends without an error, every non-blank line it read
\* is a point of one of its upsert calls: no record is skipped in silence.
C11_NoRecordSkippedSilently ==
    \A w \in Workers :
        (w_entry[w] = "upload_jsonl_dir" /\ w_pc[w] = "done") =>
            Len(UpsertedBy(w))
                = Len(SelectSeq(AllLines(jsonl_dir), LAMBDA l : l.t # "blank"))

\* C12: a worker in ensure_collection with recreate = False makes no
\* delete_collection call, makes a create_collection call only after a
\* listing of its own that lacks the collection, and none of its steps
\* changes a collection that exists.
C12_NoRecreateIsAdditive ==
    /\ [](\A i \in 1..Len(client_calls) :
              ~recreate[client_calls[i].worker] =>
                  /\ client_calls[i].op # "delete_collection"
                  /\ client_calls[i].op = "create_collection" =>
                         \E j \in 1..(i - 1) :
                             /\ client_calls[j].op = "get_collections"
                             /\ client_calls[j].worker = client_calls[i].worker
                             /\ collection_name \notin client_calls[j].result)
    /\ [][\A w \in Workers :
              ( /\ ~recreate[w] /\ w_pc'[w] # w_pc[w]
                /\ collection_name \in DOMAIN collections )
              => collections' = collections]_vars

\* C12 witness: a worker with recreate = False is done after it listed the
\* existing collection, whose point is still there.
C12_Witness ==
    \E w \in Workers :
        /\ ~recreate[w] /\ w_pc[w] = "done" /\ exists[w]
        /\ collection_name \in DOMAIN collections
        /\ collections[collection_name].points = <<OldPoint>>


(***************************************************************************)
(* Claims: documents that fail part-way, directory runs                    *)
(***************************************************************************)
\* C13: when the processing of a document fails part-way, no chunk record
\* of that document is in the output: the output file of the document
\* is absent or holds no record.
C13_NoRecordOfAbandonedDocument ==
    pc = "Exception" => (out_file = None \/ out_file[1] = <<>>)

\* C14: in a directory run, a PDF whose extraction raises is skipped and
\* the run goes on: with PDFs left in the directory, the loop over the
\* PDFs takes up the next one.
C14_FailedPdfIsSkipped ==
    (pc = "Exception" /\ doc_no < MaxDocs) =>
        ENABLED (ExtractChunksBegin \/ PdfToQdrantBegin \/ ExtractAllBegin)


\* C15: no splitter runs its splitting loop with an overlap that is not
\* strictly below max_chars: such a call is rejected or its overlap clamped
\* before the loop.
C15_LoopOnlyWithSmallerOverlap ==
    split_pc = "loop" => split_overlap < split_max_chars


(***************************************************************************)
(* pdf_outlines.py: build_tree and tree_to_markdown.  The nodes of the     *)
(* tree are dicts that the stack and the children lists share; the model   *)
(* numbers them: node 0 is ROOT, node i is made from the i-th heading, and *)
(* a children list holds node numbers.                                     *)
(***************************************************************************)
MaxHeadings == 3

\* levels with the 0 of a line that is no heading among them
LevelsWithZero == 0..4

\* the levels assign_level gives to a heading
Levels == 1..4

HeadingPool ==
    [title : {<<"o">>, <<"O">>}, level : Levels, page : {1, 2}, score : {250}]

root ==
    [title |-> <<"R", "O", "O", "T">>, level |-> 0, page |-> None,
     score |-> None, children |-> <<>>]

NodeOf(h) ==
    [title |-> h.title, level |-> h.level, page |-> Some(h.page),
     score |-> Some(h.score), children |-> <<>>]

\* a stack that drops its top while that is a node of the same level too
PopWhileAbove(nodes, stack, level) ==
    LET keep == {k \in 1..Len(stack) : nodes[stack[k]].level <= level}
    IN  SubSeq(stack, 1, IF keep = {} THEN 0
                         ELSE CHOOSE k \in keep : \A m \in keep : m <= k)

\* while stack and stack[-1]["level"] >= node["level"]: stack.pop()
RECURSIVE PopWhile(_, _, _)
PopWhile(nodes, stack, level) ==
    IF stack # <<>> /\ nodes[stack[Len(stack)]].level >= level
    THEN PopWhile(nodes, SubSeq(stack, 1, Len(stack) - 1), level)
    ELSE stack

\* a children list that takes a new node at its front
PrependChild(children, n) == <<n>> \o children

\* children.append(node)
AppendChild(children, n) == Append(children, n)

\* the body of "for h in headings" for the i-th heading; stack[-1] of an
\* empty stack raises IndexError
BuildStep(st, h, i) ==
    IF st.raised THEN st
    ELSE LET stack == PopWhile(st.nodes, st.stack, h.level)
         IN  IF stack = <<>> THEN [st EXCEPT !.raised = TRUE]
             ELSE LET top == stack[Len(stack)]
                      withNode == [n \in 0..i |->
                                      IF n = i THEN NodeOf(h) ELSE st.nodes[n]]
                  IN  [nodes |-> [withNode EXCEPT ![top].children =
                                      AppendChild(@, i)],
                       stack |-> Append(stack, i),
                       raised |-> FALSE]

RECURSIVE BuildLoop(_, _, _)
BuildLoop(st, hs, i) ==
    IF i > Len(hs) THEN st
    ELSE BuildLoop(BuildStep(st, hs[i], i), hs, i + 1)

\* the tree, or None where the loop raised
build_tree(hs) ==
    LET st == BuildLoop([nodes |-> [n \in {0} |-> root], stack |-> <<0>>,
                         raised |-> FALSE], hs, 1)
    IN  IF st.raised THEN None ELSE Some(st.nodes)

\* "#" * max(1, min(6, lvl))
Prefix(lvl) == [k \in 1..Max(1, Min(6, lvl)) |-> "#"]

\* f"{prefix} {title} (p. {page})"
MarkdownLine(ch) ==
    Prefix(ch.level) \o <<SP>> \o ch.title
        \o <<SP, "(", "p", ".", SP>> \o <<DigitStr[ch.page[1]]>> \o <<")">>

\* walk(n): the nodes below n, depth first, a node before its children
RECURSIVE walk(_, _)
walk(nodes, n) ==
    LET chs == nodes[n].children
    IN  Flatten([k \in 1..Len(chs) |-> <<chs[k]>> \o walk(nodes, chs[k])])

tree_to_markdown(nodes) ==
    LET order == walk(nodes, 0)
        lines == [k \in 1..Len(order) |-> MarkdownLine(nodes[order[k]])]
    IN  Strip(JoinNL(lines)) \o <<NL>>

BuildTreeCall ==
    /\ outline_pc = "call"
    /\ tree' = build_tree(headings)
    /\ outline_pc' = IF tree' = None THEN "IndexError" ELSE "built"
    /\ UNCHANGED <<extractVars, embedVars, indexVars, uploadVars, splitVars,
                   loopVars, docVars, headings, markdown, detected>>

TreeToMarkdownCall ==
    /\ outline_pc = "built"
    /\ markdown' = Some(tree_to_markdown(tree[1]))
    /\ outline_pc' = "written"
    /\ UNCHANGED <<extractVars, embedVars, indexVars, uploadVars, splitVars,
                   loopVars, docVars, headings, tree, detected>>

\* h.title.lower()
LowerText(t) == [i \in 1..Len(t) |-> Lower(t[i])]

\* the key of the loop that drops the repeats
KeyOf(h) == <<LowerText(h.title), h.level, h.page>>

\* "for h in headings" on the loop state [deduped, prev_key]
RECURSIVE DedupeLoop(_, _)
DedupeLoop(st, hs) ==
    IF hs = <<>> THEN st
    ELSE LET h == Head(hs)
             key == Some(KeyOf(h))
         IN  IF key = st.prev_key THEN DedupeLoop(st, Tail(hs))
             ELSE DedupeLoop([deduped |-> Append(st.deduped, h),
                              prev_key |-> key], Tail(hs))

\* the end of extract_headings: the detected headings without the
\* immediate repeats
ExtractHeadingsReturn ==
    /\ outline_pc = "detected"
    /\ headings' = DedupeLoop([deduped |-> <<>>, prev_key |-> None], detected).deduped
    /\ outline_pc' = "call"
    /\ UNCHANGED <<extractVars, embedVars, indexVars, uploadVars, splitVars,
                   loopVars, docVars, tree, markdown, detected>>

\* any list of headings as the page loop of extract_headings detects them
OutlineInit ==
    /\ entry = "gen_outline"
    /\ NoExtract /\ EmbedOff /\ IndexOff /\ UploadOff /\ SplitOff /\ LoopOff
    /\ DocOff
    /\ outline_pc = "detected"
    /\ detected \in SeqsUpTo(HeadingPool, MaxHeadings)
    /\ \A i \in 1..(Len(detected) - 1) : detected[i].page <= detected[i + 1].page
    /\ headings = <<>>
    /\ tree = None
    /\ markdown = None

OutlineNext == ExtractHeadingsReturn \/ BuildTreeCall \/ TreeToMarkdownCall

\* gen_outline from the detected headings on
SpecOutline == OutlineInit /\ [][OutlineNext]_vars

(***************************************************************************)
(* Claims: the outline tree                                                *)
(***************************************************************************)
\* the node that holds n in its children list
ParentsOf(nodes, n) ==
    {p \in DOMAIN nodes : \E k \in 1..Len(nodes[p].children) :
                              nodes[p].children[k] = n}

\* the nearest heading before the i-th with a strictly smaller level, 0
\* (ROOT) where there is none
NearestSmaller(hs, i) ==
    LET smaller == {j \in 1..(i - 1) : hs[j].level < hs[i].level}
    IN  IF smaller = {} THEN 0
        ELSE CHOOSE j \in smaller : \A m \in smaller : m <= j

\* C16: in the tree of build_tree every node but ROOT has one parent, the
\* parent's level is strictly smaller than the node's, and the parent is
\* the nearest preceding heading of a strictly smaller level, or ROOT.
C16_ParentIsNearestSmallerLevel ==
    (outline_pc \in {"built", "written"}) =>
        \A i \in 1..Len(headings) :
            /\ ParentsOf(tree[1], i) = {NearestSmaller(headings, i)}
            /\ \A p \in ParentsOf(tree[1], i) :
                   tree[1][p].level < tree[1][i].level

\* C16 witness: a tree where a heading hangs below a heading that is not
\* the one just before it
C16_Witness ==
    /\ outline_pc = "built"
    /\ \E i \in 1..Len(headings) :
           \E p \in ParentsOf(tree[1], i) : p > 0 /\ p < i - 1

Triple(x) == <<x.title, x.level, x.page>>

\* C17: walking the tree of build_tree depth first, a node before its
\* children, ROOT left out, gives the (title, level, page) of the input
\* headings in their order, and tree_to_markdown writes one line for each
\* heading in that order.
C17_PreOrderIsInputOrder ==
    /\ (outline_pc \in {"built", "written"}) =>
           LET order == walk(tree[1], 0)
           IN  [k \in 1..Len(order) |->
                   Triple([tree[1][order[k]] EXCEPT !.page = @[1]])]
                   = [k \in 1..Len(headings) |-> Triple(headings[k])]
    /\ (outline_pc = "written") =>
           markdown[1] = JoinNL([k \in 1..Len(headings) |->
                                    MarkdownLine(NodeOf(headings[k]))])
                             \o <<NL>>

\* C17 witness: a list of three headings that goes down and up again has
\* been written as markdown
C17_Witness ==
    /\ outline_pc = "written"
    /\ Len(headings) = 3
    /\ headings[1].level < headings[2].level
    /\ headings[3].level < headings[2].level
    /\ headings[1].title # headings[2].title


(***************************************************************************)
(* chunks_extractor.py: _detect_header_footer_zones and the filter of the  *)
(* line loop, on the lines of a whole document.  A line is                 *)
(* [text, y0, size, gap]: y0 is bbox[1], gap says whether the line stands  *)
(* more than 0.9 body font sizes below the line kept before it.            *)
(***************************************************************************)
MaxDocPages == 2
MaxDocLines == 2

\* the defaults of _detect_header_footer_zones, in hundredths
top_pct == 8
bottom_pct == 8
min_repeat_ratio == 60

\* sorted(xs)[len(xs) // 2], of the page heights and of the font sizes
UpperMedian(hs) ==
    LET k == Len(hs) \div 2
    IN  CHOOSE v \in {hs[i] : i \in 1..Len(hs)} :
            /\ Cardinality({i \in 1..Len(hs) : hs[i] < v}) <= k
            /\ Cardinality({i \in 1..Len(hs) : hs[i] <= v}) > k

\* the pages that hold a line
NonEmptyPages(lpp) ==
    Max(1, Cardinality({p \in 1..Len(lpp) : lpp[p] # <<>>}))

\* n_pages = max(1, len(lines_per_page))
NPages(lpp) == Max(1, Len(lpp))

InTop(ln, page_height) == ln.y0 * 100 <= page_height * top_pct

\* the elif: a line of the top band is no footer line
InBottom(ln, page_height) ==
    /\ ~InTop(ln, page_height)
    /\ ln.y0 * 100 >= page_height * (100 - bottom_pct)

\* header_counts / footer_counts: how many lines of the band carry a text
BandCounts(lpp, page_height, InBand(_, _)) ==
    LET band == SelectSeq(Flatten(lpp), LAMBDA ln : InBand(ln, page_height))
        keys == {Strip(band[i].text) : i \in 1..Len(band)}
    IN  [t \in keys |->
            Len(SelectSeq(band, LAMBDA ln : Strip(ln.text) = t))]

\* the texts of a band that repeat often enough, and its page-number
\* patterns
BandTexts(counts, n_pages) ==
    {t \in DOMAIN counts :
        counts[t] * 100 >= min_repeat_ratio * n_pages /\ Len(t) <= 120}
        \cup {t \in DOMAIN counts : _looks_like_header_footer(t)}

\* <<header_texts, footer_texts>>
_detect_header_footer_zones(lpp, page_height) ==
    <<BandTexts(BandCounts(lpp, page_height, InTop), NPages(lpp)),
      BandTexts(BandCounts(lpp, page_height, InBottom), NPages(lpp))>>

\* the sets extract_chunks_from_pdf works with: empty for a document
\* without pages
DetectedTexts(lpp, hs) ==
    IF hs = <<>> THEN <<{}, {}>>
    ELSE _detect_header_footer_zones(lpp, UpperMedian(hs))

\* the three "continue" at the head of the line loop
Skipped(ln, hf) ==
    LET t == Strip(ln.text)
    IN  \/ t = <<>>
        \/ t \in hf[1] \/ t \in hf[2]
        \/ _looks_like_header_footer(t)

\* the lines of each page that the line loop goes on with
FilterLines(lpp, hf) ==
    [p \in 1..Len(lpp) |-> SelectSeq(lpp[p], LAMBDA ln : ~Skipped(ln, hf))]

DetectCall ==
    /\ filter_pc = "call"
    /\ header_footer' = DetectedTexts(lines_per_page, page_heights)
    /\ filter_pc' = "detected"
    /\ UNCHANGED <<extractVars, embedVars, indexVars, uploadVars, splitVars,
                   loopVars, outlineVars, lines_per_page, page_heights,
                   line_no, filtered, refiltered>>

FilterCall ==
    /\ filter_pc = "detected"
    /\ filtered' = FilterLines(lines_per_page, header_footer)
    /\ filter_pc' = "filtered"
    /\ UNCHANGED <<extractVars, embedVars, indexVars, uploadVars, splitVars,
                   loopVars, outlineVars, lines_per_page, page_heights,
                   line_no, header_footer, refiltered>>

\* detection and filter once more, on the lines that were left
RefilterCall ==
    /\ filter_pc = "filtered"
    /\ header_footer' = DetectedTexts(filtered, page_heights)
    /\ refiltered' = FilterLines(filtered, header_footer')
    /\ filter_pc' = "refiltered"
    /\ UNCHANGED <<extractVars, embedVars, indexVars, uploadVars, splitVars,
                   loopVars, outlineVars, lines_per_page, page_heights,
                   line_no, filtered>>

\* "x" in the top band, in the body and in the bottom band, a page number
\* in the bottom band
DocLinePool ==
    {[text |-> <<"x">>, y0 |-> 30, size |-> 10, gap |-> FALSE],
     [text |-> <<"x">>, y0 |-> 400, size |-> 10, gap |-> FALSE],
     [text |-> <<"x">>, y0 |-> 760, size |-> 10, gap |-> FALSE],
     [text |-> <<"7">>, y0 |-> 760, size |-> 10, gap |-> FALSE]}

\* _iter_lines_with_style sorts the lines of a page from top to bottom
SortedPages ==
    {ls \in SeqsUpTo(DocLinePool, MaxDocLines) :
        \A i \in 1..(Len(ls) - 1) : ls[i].y0 <= ls[i + 1].y0}

FilterInit ==
    /\ entry = "extract_chunks_from_pdf"
    /\ NoExtract /\ EmbedOff /\ IndexOff /\ UploadOff /\ SplitOff
    /\ LoopOff /\ OutlineOff
    /\ \E n \in 1..MaxDocPages :
           /\ lines_per_page \in [1..n -> SortedPages]
           /\ page_heights = [p \in 1..n |-> 800]
    /\ line_no = 0
    /\ filter_pc = "call"
    /\ header_footer = <<{}, {}>>
    /\ filtered = <<>>
    /\ refiltered = <<>>

FilterNext == DetectCall \/ FilterCall \/ RefilterCall

\* header/footer detection and filter on their own
SpecFilter == FilterInit /\ [][FilterNext]_vars

(***************************************************************************)
(* Claims: running headers and footers                                     *)
(***************************************************************************)
\* the pages on which a text stands in the top or the bottom band
PagesInBand(lpp, page_height, t) ==
    {p \in 1..Len(lpp) :
        \E i \in 1..Len(lpp[p]) :
            /\ Strip(lpp[p][i].text) = t
            /\ \/ InTop(lpp[p][i], page_height)
               \/ InBottom(lpp[p][i], page_height)}

\* C18: a text that is no page-number pattern is on the blacklist of
\* _detect_header_footer_zones exactly when the pages that show it in the
\* top or bottom band are at least 60% of the pages; a text below that
\* keeps its lines in the body stream.
C18_BlacklistedIffOnEnoughPages ==
    (filter_pc \in {"detected", "filtered"}) =>
        \A p \in 1..Len(lines_per_page) : \A i \in 1..Len(lines_per_page[p]) :
            LET ln == lines_per_page[p][i]
                t == Strip(ln.text)
                pages == PagesInBand(lines_per_page,
                                     UpperMedian(page_heights), t)
                often == Cardinality(pages) * 100
                             >= min_repeat_ratio * Len(lines_per_page)
            IN  ~_looks_like_header_footer(t) =>
                    /\ (t \in header_footer[1] \cup header_footer[2]) <=> often
                    /\ (filter_pc = "filtered" /\ ~often) =>
                           \E k \in 1..Len(filtered[p]) : filtered[p][k] = ln

\* C19: filtering the lines of a document, then detecting and filtering
\* again on what is left, removes no further line.
C19_FilterIsIdempotent ==
    filter_pc = "refiltered" => refiltered = filtered

\* C19 witness: the first filter removed a line and left one in a margin
\* band, and the second filter has run
C19_Witness ==
    /\ filter_pc = "refiltered"
    /\ filtered # lines_per_page
    /\ \E p \in 1..Len(filtered) : \E i \in 1..Len(filtered[p]) :
           InTop(filtered[p][i], UpperMedian(page_heights))


(***************************************************************************)
(* chunks_extractor.py: extract_chunks_from_pdf on a document given whole, *)
(* called by create_chunks with the default parameters.                    *)
(***************************************************************************)
\* sizes[len(sizes) // 2] of the sorted sizes above 0, 10.0 without any
_compute_body_font_size(all_lines) ==
    LET sizes == SelectSeq([i \in 1..Len(all_lines) |-> all_lines[i].size],
                           LAMBDA z : z > 0)
    IN  IF sizes = <<>> THEN 10 ELSE UpperMedian(sizes)

\* the lines of the pages before the p-th, counted
LinesBefore(lpp, p) == Len(Flatten(SubSeq(lpp, 1, p - 1)))

\* the call up to the page loop: the lines of all pages are there, the
\* body font size and the header and footer texts are computed from them
DocBegin ==
    /\ extractor = "extract_chunks_from_pdf"
    /\ pc = "idle" /\ doc_no < 1
    /\ doc_no' = doc_no + 1
    /\ body_font' = _compute_body_font_size(Flatten(lines_per_page))
    /\ header_footer' = DetectedTexts(lines_per_page, page_heights)
    /\ hf_texts' = header_footer'[1] \cup header_footer'[2]
    /\ out_chunks' = <<>>
    /\ running_chunk_index' = 0
    /\ current_section' = None
    /\ page_index' = 0
    /\ line_no' = 0
    /\ out_file' = None
    /\ pc' = "pages"
    /\ UNCHANGED <<embedVars, indexVars, uploadVars, splitVars, loopVars,
                   outlineVars, lines_per_page, page_heights, filter_pc,
                   filtered, refiltered, entry, extractor, max_chars,
                   overlap_chars, n_lines, prev_y1, para_lines, blocks, ctx,
                   block_index, uuid_ctr>>

\* "for page_index, lines in enumerate(lines_per_page)" takes a page
DocPage ==
    /\ page_index < Len(lines_per_page)
    /\ ExtractChunksPage

\* one iteration of "for ln in lines" on the next line of the page
DocLine ==
    /\ extractor = "extract_chunks_from_pdf"
    /\ pc = "page"
    /\ line_no < LinesBefore(lines_per_page, page_index + 2)
    /\ LineStep(lines_per_page[page_index + 1]
                    [line_no - LinesBefore(lines_per_page, page_index + 1) + 1])
    /\ line_no' = line_no + 1
    /\ UNCHANGED <<embedVars, indexVars, uploadVars, splitVars, loopVars,
                   outlineVars, lines_per_page, page_heights, filter_pc,
                   header_footer, filtered, refiltered, entry, extractor,
                   max_chars, overlap_chars, pc, doc_no, page_index, n_lines,
                   body_font, hf_texts, ctx, block_index, out_chunks,
                   running_chunk_index, out_file, uuid_ctr>>

\* the lines of the page are through
DocEndPage ==
    /\ pc = "page"
    /\ line_no = LinesBefore(lines_per_page, page_index + 2)
    /\ ExtractChunksEndPage

\* the pages are through
DocReturn ==
    /\ page_index = Len(lines_per_page)
    /\ ExtractChunksReturn

Heading24 == <<"M", "o", "d", "u", "l", "e", SP, "1", SP, "O", "v", "e", "r", "v", "i", "e", "w">>

\* "Page X of Y" on a document of two pages
FooterText(x) == <<"P", "a", "g", "e", SP>> \o <<DigitStr[x]>> \o <<SP, "o", "f", SP, "2">>

ParagraphPool == {<<"a">>, <<"b", SP, "c">>}

\* two pages of height 800: a 24pt line "Module 1 Overview" and three 10pt
\* paragraphs on page 1, a 10pt footer "Page X of 2" in the bottom band of
\* both pages, a body line on page 2 or none
ScenarioInit ==
    /\ entry = "create_chunks"
    /\ extractor = "extract_chunks_from_pdf"
    /\ max_chars = 3500
    /\ overlap_chars = 200
    /\ ExtractOff
    /\ EmbedOff /\ IndexOff /\ UploadOff /\ SplitOff /\ LoopOff /\ OutlineOff
    /\ \E p1 \in ParagraphPool, p2 \in ParagraphPool, p3 \in ParagraphPool,
          g \in BOOLEAN, x1 \in {1}, x2 \in 1..2, more \in BOOLEAN :
           LET body(t, y, gp) ==
                   [text |-> t, y0 |-> y, size |-> 10, gap |-> gp]
               footer(x) == body(FooterText(x), 760, g)
           IN  lines_per_page =
                   << <<[text |-> Heading24, y0 |-> 100, size |-> 24,
                         gap |-> FALSE],
                        body(p1, 140, TRUE), body(p2, 200, TRUE),
                        body(p3, 260, TRUE), footer(x1)>>,
                      (IF more THEN <<body(p1, 100, FALSE)>> ELSE <<>>)
                          \o <<footer(x2)>> >>
    /\ page_heights = <<800, 800>>
    /\ line_no = 0
    /\ filter_pc = "off"
    /\ header_footer = <<{}, {}>>
    /\ filtered = <<>>
    /\ refiltered = <<>>

ScenarioNext == DocBegin \/ DocPage \/ DocLine \/ DocEndPage \/ DocReturn

\* create_chunks on the document with the heading and the footers
SpecScenario == ScenarioInit /\ [][ScenarioNext]_vars

(***************************************************************************)
(* Claims: the document with one heading and a footer                      *)
(***************************************************************************)
Contains(s, sub) ==
    \E k \in 1..(Len(s) - Len(sub) + 1) : SubSeq(s, k, k + Len(sub) - 1) = sub

\* C20: from the two-page document with the 24pt line "Module 1 Overview",
\* three 10pt paragraphs and the 10pt footer "Page X of Y" on both pages,
\* the extraction gives one heading, "Module 1 Overview", at least one
\* chunk of the section "Module 1 Overview", and no chunk that contains
\* the text of a footer.
C20_HeadingKeptFooterDropped ==
    (pc = "idle" /\ doc_no = 1) =>
        /\ Cardinality({i \in 1..Len(out_chunks) :
                           /\ HasKey(out_chunks[i], "is_heading")
                           /\ out_chunks[i]["is_heading"]}) = 1
        /\ \A i \in 1..Len(out_chunks) :
               HasKey(out_chunks[i], "is_heading") =>
                   out_chunks[i]["section"] = Some(Heading24)
        /\ \E i \in 1..Len(out_chunks) :
               out_chunks[i]["section"] = Some(Heading24)
        /\ \A i \in 1..Len(out_chunks) : \A p \in 1..Len(lines_per_page) :
               LET last == lines_per_page[p][Len(lines_per_page[p])]
               IN  ~Contains(out_chunks[i]["text"], last.text)


(***************************************************************************)
(* Claims: headings and the section context                                *)
(***************************************************************************)
\* a record made from a heading: a chunk of _split_into_chunks that took
\* its metadata from a heading block and begins with the heading, or a
\* record of extract_all_text whose block was classified title, h1 or h2
FromHeading(rec) ==
    \/ /\ HasKey(rec, "is_heading")
       /\ rec["is_heading"]
       /\ IsPrefix(rec["section"][1], rec["text"])
    \/ /\ HasKey(rec, "metadata")
       /\ HasKey(rec["metadata"], "level")
       /\ rec["metadata"]["level"] \in {"title", "h1", "h2"}

\* C21: a heading only updates the section context: no record that an
\* extractor emits has the text of a heading block as its text or as the
\* beginning of its text.
C21_HeadingIsNoChunkContent ==
    \A i \in 1..Len(Emitted) : ~FromHeading(Emitted[i])


(***************************************************************************)
(* The section context of pdf_to_qdrant_jsonl and extract_all_text over a  *)
(* given document of one page: lines_per_page holds the blocks of the      *)
(* page in reading order, line_no counts the blocks that are through.      *)
(***************************************************************************)
MaxContextBlocks == 3

\* the blocks of a page: each size class with two texts in the body of the
\* page, and a body block in the top margin
ContextBlocks ==
    {[text |-> t, size |-> st.size, bold |-> st.bold,
      bbox |-> <<72, 100, 500, 200>>] :
        t \in {<<"a">>, <<"b", ".">>}, st \in BlockStyles}
    \cup {[text |-> <<"a">>, size |-> 10, bold |-> FALSE,
           bbox |-> <<72, 30, 500, 42>>]}

\* blocks.sort(key=lambda b: (b["bbox"][1], b["bbox"][0]))
SortedBlocks(bs) ==
    \A i \in 1..(Len(bs) - 1) : bs[i].bbox[2] <= bs[i + 1].bbox[2]

ContextBegin ==
    /\ doc_no < 1
    /\ PdfToQdrantBegin \/ ExtractAllBegin

ContextPage ==
    /\ page_index < Len(lines_per_page)
    /\ PdfToQdrantPage \/ ExtractAllPage

\* one iteration of the loop over the blocks of the page
ContextBlock ==
    /\ pc = "page"
    /\ line_no < LinesBefore(lines_per_page, page_index + 2)
    /\ LET b == lines_per_page[page_index + 1]
                    [line_no - LinesBefore(lines_per_page, page_index + 1) + 1]
       IN  \/ /\ extractor = "pdf_to_qdrant_jsonl"
              /\ QdrantBlockStep(b, page_heights[page_index + 1])
              /\ UNCHANGED block_index
           \/ /\ extractor = "extract_all_text"
              /\ AllTextBlockStep(b)
              /\ block_index' = block_index + 1
    /\ line_no' = line_no + 1
    /\ UNCHANGED <<embedVars, indexVars, uploadVars, splitVars, loopVars,
                   outlineVars, lines_per_page, page_heights, filter_pc,
                   header_footer, filtered, refiltered, entry, extractor,
                   max_chars, overlap_chars, pc, doc_no, page_index, n_lines,
                   body_font, hf_texts, prev_y1, para_lines, blocks,
                   current_section, out_chunks>>

ContextEndPage ==
    /\ pc = "page"
    /\ line_no = LinesBefore(lines_per_page, page_index + 2)
    /\ PdfToQdrantEndPage \/ ExtractAllEndPage

ContextEnd ==
    /\ page_index = Len(lines_per_page)
    /\ PdfToQdrantEnd \/ ExtractAllEnd

ContextInit ==
    /\ entry = "create_extracts"
    /\ extractor \in {"pdf_to_qdrant_jsonl", "extract_all_text"}
    /\ max_chars = MAX_CHARS
    /\ overlap_chars = OVERLAP_CHARS
    /\ ExtractOff
    /\ EmbedOff /\ IndexOff /\ UploadOff /\ SplitOff /\ LoopOff /\ OutlineOff
    /\ \E bs \in SeqsUpTo(ContextBlocks, MaxContextBlocks) :
           /\ SortedBlocks(bs)
           /\ lines_per_page = <<bs>>
    /\ page_heights = <<792>>
    /\ line_no = 0
    /\ filter_pc = "off"
    /\ header_footer = <<{}, {}>>
    /\ filtered = <<>>
    /\ refiltered = <<>>

ContextNext ==
    ContextBegin \/ ContextPage \/ ContextBlock \/ ContextEndPage \/ ContextEnd

\* one of the two extractors on one document with its blocks given
SpecContext == ContextInit /\ [][ContextNext]_vars

SlotDepth(level) == CASE level = "title" -> 1 [] level = "h1" -> 2
                      [] level = "h2" -> 3 [] OTHER -> 4

\* whether the running extractor takes the block for a heading, and at
\* which level
LevelOfBlock(b) ==
    LET text == NormalizedText[b.text]
    IN  IF text = <<>> THEN "body"
        ELSE IF extractor = "extract_all_text" THEN classify(b.size, body_font)
        ELSE IF /\ is_header_footer_bbox(b.bbox, page_heights[1])
                /\ ~looks_like_heading(text) THEN "body"
        ELSE IF b.bold \/ looks_like_heading(text)
        THEN classify_level(b.size, body_font)
        ELSE "body"

\* the blocks of the document that are through
BlocksDone == SubSeq(lines_per_page[1], 1, line_no)

\* the slot of a level after the blocks bs: the most recent heading of the
\* level, unless a heading of a shallower level came after it
SlotAfter(bs, level) ==
    LET at == {j \in 1..Len(bs) : LevelOfBlock(bs[j]) = level}
    IN  IF at = {} THEN None
        ELSE LET j == CHOOSE x \in at : \A y \in at : y <= x
             IN  IF \E k \in (j + 1)..Len(bs) :
                        SlotDepth(LevelOfBlock(bs[k])) < SlotDepth(level)
                 THEN None
                 ELSE Some(NormalizedText[bs[j].text])

CtxIsSnapshot ==
    (lines_per_page # <<>> /\ pc \in {"page", "pages"}) =>
        \A level \in {"title", "h1", "h2"} :
            ctx[level] = SlotAfter(BlocksDone, level)

\* the records a step appends carry the context as the step leaves it
StampedWithCtx ==
    (out_file # None /\ out_file' # None) =>
        \A i \in (Len(out_file[1]) + 1)..Len(out_file'[1]) :
            LET md == out_file'[1][i]["metadata"]
            IN  <<md["title"], md["h1"], md["h2"]>>
                    = <<ctx'.title, ctx'.h1, ctx'.h2>>

\* C22: in pdf_to_qdrant_jsonl and extract_all_text the section context is
\* empty at the start of a document; at every point each of the slots
\* title, h1, h2 holds the most recent heading of its level since the last
\* heading of a shallower level (a heading sets its slot, clears the deeper
\* ones and leaves the shallower ones), and every chunk written is stamped
\* with that context
C22_ContextIsNearestHeadings ==
    /\ [](pc = "idle" \/ CtxIsSnapshot)
    /\ [][(pc = "idle" /\ pc' # "idle") => ctx' = NoCtx]_vars
    /\ [][StampedWithCtx]_vars

\* an h2 heading, then an h1 heading, then a body block whose record carries
\* the h1 heading and no h2
C22_Witness ==
    /\ lines_per_page # <<>>
    /\ pc = "page" /\ line_no = 3
    /\ extractor = "pdf_to_qdrant_jsonl"
    /\ LevelOfBlock(BlocksDone[1]) = "h2"
    /\ LevelOfBlock(BlocksDone[2]) = "h1"
    /\ out_file # None /\ Len(out_file[1]) = 1
    /\ out_file[1][1]["metadata"]["h1"] = Some(NormalizedText[BlocksDone[2].text])
    /\ out_file[1][1]["metadata"]["h2"] = None


(***************************************************************************)
(* The windows of the hard split.                                          *)
(***************************************************************************)
\* the windows <<start, end>> over a text of n characters: the first starts
\* at 0, each is maxc long but the last, each next one starts overlap
\* characters before the end of the one before, the last ends at n
WindowsOf(n, maxc, overlap) ==
    LET step == maxc - overlap
        ks == {k \in 0..n : k = 0 \/ (k - 1) * step + maxc < n}
    IN  [i \in 1..Cardinality(ks) |->
            <<(i - 1) * step, Min((i - 1) * step + maxc, n)>>]

\* the stripped windows of a text, the empty ones left out
WindowChunks(t, maxc, overlap) ==
    LET ws == WindowsOf(Len(t), maxc, overlap)
        all == [i \in 1..Len(ws) |-> Strip(Slice(t, ws[i][1], ws[i][2]))]
    IN  SelectSeq(all, LAMBDA c : c # <<>>)

\* the text a call hard-splits: split_chunks the text as it is,
\* split_into_chunks the stripped text when it is one paragraph
HardSplitText ==
    IF split_fn = "split_chunks" THEN split_text ELSE Strip(split_text)

HardSplitCase ==
    /\ split_result # None
    /\ 0 <= split_overlap /\ split_overlap < split_max_chars
    /\ Len(HardSplitText) > split_max_chars
    /\ split_fn = "split_into_chunks" => Len(ReSplit(HardSplitText)) = 1

\* C23: for a text longer than max_chars and 0 <= overlap < max_chars the
\* hard split of split_chunks (and of the oversized paragraph in
\* split_into_chunks) cuts the windows that start at 0, are max_chars long
\* but the last, restart overlap characters before the end of the one
\* before and end at len(text); every position is in a window and the
\* chunks are the stripped windows, in order, the empty ones left out
C23_HardSplitWindows ==
    HardSplitCase =>
        LET t == HardSplitText
            ws == WindowsOf(Len(t), split_max_chars, split_overlap)
            cs == WindowChunks(t, split_max_chars, split_overlap)
        IN  /\ ws[1][1] = 0
            /\ ws[Len(ws)][2] = Len(t)
            /\ \A p \in 0..(Len(t) - 1) :
                   \E i \in 1..Len(ws) : ws[i][1] <= p /\ p < ws[i][2]
            /\ split_result[1] =
                   IF /\ split_fn = "split_into_chunks"
                      /\ split_overlap > 0 /\ Len(cs) > 1
                   THEN Overlapped(<<>>, cs, split_overlap)
                   ELSE cs

\* three windows that overlap, split_chunks
C23_Witness ==
    /\ HardSplitCase
    /\ split_fn = "split_chunks"
    /\ split_overlap > 0
    /\ Len(WindowsOf(Len(split_text), split_max_chars, split_overlap)) >= 3
    /\ Len(split_result[1]) >= 3


\* the detected headings that do not repeat (title, level, page) of the
\* heading detected just before them
WithoutRepeats(hs) ==
    Kept(hs, LAMBDA s, i : i = 1 \/ Triple(s[i]) # Triple(s[i - 1]))

\* C24: extract_headings returns the detected headings without those that
\* have the same normalized text, level and page as the heading detected
\* immediately before; headings that differ in one of the three, be it in
\* the letter case of the text only, are both kept
C24_OnlyExactRepeatsRemoved ==
    (entry = "gen_outline" /\ outline_pc # "detected") =>
        headings = WithoutRepeats(detected)


\* C25: with max_chars >= 1 and 0 <= overlap < max_chars the hard-split
\* loop ends: every iteration that stays in the loop moves the window start
\* up, the iteration whose window ends at len(text) leaves the loop, and a
\* call that entered the loop returns
C25_HardSplitLoopEnds ==
    /\ [][(/\ split_overlap < split_max_chars
           /\ split_pc = "loop" /\ split_pc' = "loop")
              => /\ split_start' > split_start
                 /\ split_start + split_max_chars < Len(split_text)]_vars
    /\ [][(/\ split_overlap < split_max_chars
           /\ split_pc = "loop"
           /\ split_start + split_max_chars >= Len(split_text))
              => split_pc' = "returned"]_vars
    /\ (split_pc = "loop" /\ split_overlap < split_max_chars)
           ~> (split_pc = "returned")

\* a call with an overlap that has returned after three iterations or more
C25_Witness ==
    /\ split_pc = "returned"
    /\ 0 < split_overlap /\ split_overlap < split_max_chars
    /\ Len(split_text) > split_max_chars
    /\ Len(split_acc) >= 3


(***************************************************************************)
(* chunks_extractor.py: _split_into_chunks on the blocks of a page, as     *)
(* extract_chunks_from_pdf calls it.  blocks holds the input, out_chunks   *)
(* the chunks returned.                                                    *)
(***************************************************************************)
MaxBlocks == 3

\* the blocks flush_para and the heading branch of the line loop make:
\* normalized text that is not empty
SplitBlockTexts ==
    {<<"a">>, <<"a", "b", "c">>, <<"a", "b", "c", "d", "a", "b", "c">>}

SplitBlockPool ==
    {[source_file |-> DocNames[1], page |-> 1, section |-> None, text |-> t] :
        t \in SplitBlockTexts}
    \cup {[source_file |-> DocNames[1], page |-> 1, section |-> Some(t),
           is_heading |-> TRUE, text |-> t] : t \in SplitBlockTexts}

SplitBlocksCall ==
    /\ pc = "split"
    /\ out_chunks' = _split_into_chunks(blocks, max_chars, overlap_chars)
    /\ pc' = "split_done"
    /\ UNCHANGED <<nonExtractVars, entry, extractor, max_chars, overlap_chars,
                   doc_no, page_index, n_lines, body_font, hf_texts, prev_y1,
                   para_lines, blocks, current_section, ctx, block_index,
                   running_chunk_index, out_file, uuid_ctr>>

SplitBlocksInit ==
    /\ entry = "_split_into_chunks"
    /\ extractor = "extract_chunks_from_pdf"
    /\ max_chars \in MinChars..MaxChars
    /\ overlap_chars \in 0..Min(MaxOverlap, max_chars - 1)
    /\ pc = "split"
    /\ doc_no = 0
    /\ page_index = 0
    /\ n_lines = 0
    /\ body_font = 10
    /\ hf_texts = {}
    /\ prev_y1 = None
    /\ para_lines = <<>>
    /\ blocks \in SeqsUpTo(SplitBlockPool, MaxBlocks)
    /\ current_section = None
    /\ ctx = NoCtx
    /\ block_index = 0
    /\ out_chunks = <<>>
    /\ running_chunk_index = 0
    /\ out_file = None
    /\ uuid_ctr = 0
    /\ EmbedOff /\ IndexOff /\ UploadOff /\ SplitOff /\ CallOff

\* _split_into_chunks on its own
SpecSplitBlocks == SplitBlocksInit /\ [][SplitBlocksCall]_vars

\* the loop state after the first k blocks
StateAfter(k) ==
    SplitLoop(SplitInit, SubSeq(blocks, 1, k), max_chars, overlap_chars)

\* block k went through the branch that appends to the accumulator, and
\* the accumulator held text
AppendedTo(k) ==
    /\ ~HasKey(blocks[k], "is_heading")
    /\ StateAfter(k - 1).cur # <<>>
    /\ StateAfter(k).chunks = StateAfter(k - 1).chunks
    /\ StateAfter(k).cur = Append(StateAfter(k - 1).cur, Strip(blocks[k]["text"]))

\* the accumulator is one block, or an overlap tail and one block
OneBlock(cur, k) ==
    LET t == Strip(blocks[k]["text"])
    IN  \/ cur = <<t>>
        \/ /\ Len(cur) = 2 /\ cur[2] = t
           /\ Len(cur[1]) <= overlap_chars

\* C26: in _split_into_chunks a body block that is appended to an
\* accumulator that holds text leaves the newline-joined accumulator no
\* longer than max_chars, and an emitted chunk that is longer than
\* max_chars is one input block, with or without an overlap tail of at
\* most overlap_chars characters before it
C26_AppendStaysWithinMax ==
    (pc = "split_done") =>
        /\ \A k \in 1..Len(blocks) :
               AppendedTo(k) => Len(JoinNL(StateAfter(k).cur)) <= max_chars
        /\ \A k \in 1..Len(blocks) :
               Len(JoinNL(StateAfter(k).cur)) > max_chars
                   => OneBlock(StateAfter(k).cur, k)
        /\ \A i \in 1..Len(out_chunks) :
               Len(out_chunks[i]["text"]) > max_chars =>
                   \E k \in 1..Len(blocks) :
                       /\ OneBlock(StateAfter(k).cur, k)
                       /\ out_chunks[i]["text"] =
                              _normalize(JoinNL(StateAfter(k).cur))

\* a block appended after an overlap tail and a block fills the accumulator
\* up to max_chars, and a chunk longer than max_chars has been emitted
C26_Witness ==
    /\ pc = "split_done"
    /\ \E k \in 1..Len(blocks) :
           /\ AppendedTo(k)
           /\ Len(StateAfter(k - 1).cur) = 2
           /\ Len(JoinNL(StateAfter(k).cur)) = max_chars
    /\ \E i \in 1..Len(out_chunks) : Len(out_chunks[i]["text"]) > max_chars


\* the state of the loop of build_tree after the first k headings
TreeAfter(k) ==
    BuildLoop([nodes |-> [n \in {0} |-> root], stack |-> <<0>>,
               raised |-> FALSE], SubSeq(headings, 1, k), 1)

\* C27: in build_tree on the headings of extract_headings (levels 1..4)
\* the stack is not empty when a node is attached: ROOT (level 0) is never
\* popped, it is the bottom of the stack after every heading, and
\* build_tree does not raise
C27_RootStaysOnStack ==
    (entry = "gen_outline" /\ outline_pc # "detected") =>
        /\ outline_pc # "IndexError"
        /\ \A k \in 0..Len(headings) :
               LET st == TreeAfter(k)
               IN  /\ ~st.raised
                   /\ st.stack # <<>> /\ st.stack[1] = 0
                   /\ k < Len(headings) =>
                          LET popped == PopWhile(st.nodes, st.stack,
                                                 headings[k + 1].level)
                          IN  popped # <<>> /\ popped[1] = 0

\* a tree has been built from headings where a heading of level 1 follows
\* a deeper one: the stack was popped down to ROOT
C27_Witness ==
    /\ outline_pc = "built"
    /\ \E k \in 1..(Len(headings) - 1) :
           /\ headings[k].level > 1 /\ headings[k + 1].level = 1
           /\ Len(TreeAfter(k).stack) >= 2
           /\ PopWhile(TreeAfter(k).nodes, TreeAfter(k).stack, 1) = <<0>>


\* the calls of an operation that a worker made
CallsOf(w, ops) ==
    SelectSeq(client_calls, LAMBDA c : c.worker = w /\ c.op \in ops)

\* the directory is read to its end without a point and without an error
YieldsNoPoint(dir) ==
    \A f \in DOMAIN dir :
        \A i \in 1..Len(dir[f]) : iter_line(dir[f][i]).kind = "skip"

\* C28: every upsert call of upload_jsonl_dir carries 1 to batch_size
\* points, and every call but the last one exactly batch_size; on a
\* directory that yields no valid point upload_jsonl_dir raises
\* RuntimeError, with no collection created and no upsert call
C28_BatchSizesAndEmptyDirectory ==
    \A w \in Workers :
        w_entry[w] = "upload_jsonl_dir" =>
            LET mine == CallsOf(w, {"upsert"})
            IN  /\ \A i \in 1..Len(mine) :
                       /\ 1 <= Len(mine[i].points)
                       /\ Len(mine[i].points) <= batch_size
                       /\ i < Len(mine) => Len(mine[i].points) = batch_size
                /\ YieldsNoPoint(jsonl_dir) =>
                       w_pc[w] \in {"peek", "RuntimeError"}
                /\ w_pc[w] = "RuntimeError" =>
                       /\ ValidPoints(jsonl_dir) = <<>>
                       /\ CallsOf(w, {"create_collection", "upsert"}) = <<>>

\* an upload of three points in batches of two is done: a full call and a
\* last call of one point
C28_Witness ==
    /\ w_pc[1] = "done"
    /\ batch_size = 2
    /\ Len(CallsOf(1, {"upsert"})) = 2
    /\ Len(CallsOf(1, {"upsert"})[1].points) = 2
    /\ Len(CallsOf(1, {"upsert"})[2].points) = 1

=============================================================================
